---- MODULE Spec2Model ----
(***************************************************************************)
(* Model of the client-side UML class-diagram pipeline of                  *)
(* robo-analyzer-vue3: the pure graph functions of utils/classDiagram.ts   *)
(* and the rebuild scheduling of the stress-layout diagram component.      *)
(*                                                                         *)
(* Strings that the code inspects by substring (node ids inside the keys   *)
(* of dedupeRelationships) are modelled as sequences of tokens: the string *)
(* is the concatenation of the tokens, "::" is one token, and a relation   *)
(* type name is one token.  All other strings are TLA+ strings.            *)
(***************************************************************************)
EXTENDS Integers, Sequences, FiniteSets, TLC

VARIABLES
  graphNodes,       \* props.graphNodes / the `nodes` argument: sequence of GraphNode
  graphLinks,       \* props.graphLinks / the `links` argument: sequence of GraphLink
  selectedNodeIds,  \* the `startNodeIds` / `selectedNodeIds` argument of the pure functions
  depth,            \* props.depth / the `maxDepth` / `depth` argument
  call,             \* which pure function has been applied ("none" before the call)
  ret,              \* the value that call returned
  selectedClasses,  \* props.selectedClasses: sequence of {className, directory}
  layoutRunId,      \* the module-level counter of rebuildSafely
  inflight,         \* rebuilds suspended in `await calculateElkLayout(...)`
  nodes,            \* nodes.value of the component (displayed nodes)
  edges,            \* edges.value of the component (displayed edges)
  diagramData,      \* diagramData.value of the component
  issued,           \* history: what the most recently issued rebuild computed
  nodeMap,          \* nodeMap.value of the project store: entries in insertion order
  linkMap,          \* linkMap.value of the project store: entries in insertion order
  delivered,        \* history: the latest entry delivered per id since the last
                    \* clear, and whether a delivery replaced an entry by a different one
  isProcessing,     \* isProcessing.value of the project store
  currentStep,      \* currentStep.value of the project store
  uploadedFiles,    \* uploadedFiles.value of the project store: sequence of file nodes
  uploadedDdlFiles, \* uploadedDdlFiles.value of the project store
  running,          \* how many calls of each store operation are suspended in their request
  showModal,        \* showModal.value of the upload view
  pendingFiles,     \* pendingFiles.value of the upload view
  openTabs,         \* openTabs.value of the upload view: sequence of tab ids
  activeTabId,      \* activeTabId.value of the upload view
  selectedRelPath   \* selectedRelPath.value of the upload view

vars == <<graphNodes, graphLinks, selectedNodeIds, depth, call, ret,
          selectedClasses, layoutRunId, inflight, nodes, edges, diagramData, issued,
          nodeMap, linkMap, delivered,
          isProcessing, currentStep, uploadedFiles, uploadedDdlFiles, running,
          showModal, pendingFiles, openTabs, activeTabId, selectedRelPath>>

pureVars == <<graphNodes, graphLinks, selectedNodeIds, depth, call, ret>>
compVars == <<selectedClasses, layoutRunId, inflight, nodes, edges, diagramData, issued>>
storeVars == <<nodeMap, linkMap, delivered>>
procVars == <<isProcessing, currentStep, uploadedFiles, uploadedDdlFiles, running,
              showModal, pendingFiles>>
tabVars == <<openTabs, activeTabId, selectedRelPath>>

(***************************************************************************)
(* Bounds of the model.                                                    *)
(***************************************************************************)
MaxDepthLinks == 3
MaxDepth == 2
MaxNoiseLinks == 4
MaxDedupeLinks == 3
MaxProjLinks == 3
MaxRuns == 3
MaxNormalizeLinks == 4
MaxLayoutClasses == 5
MaxBatch == 2
MaxLabels == 2
MaxHierClasses == 3
MaxHierLinks == 3
MaxResolveBoxes == 3
MaxZeroDraws == 4
MaxInFlight == 2

(***************************************************************************)
(* Generic helpers.                                                        *)
(***************************************************************************)
Range(s) == {s[i] : i \in 1..Len(s)}

SeqsUpTo(S, n) == UNION {[1..k -> S] : k \in 0..n}

\* Array.prototype.includes / String.prototype.includes on token sequences:
\* `part` occurs in `whole` as a contiguous run.
Includes(whole, part) ==
  \E i \in 0..(Len(whole) - Len(part)) :
    \A j \in 1..Len(part) : whole[i + j] = part[j]

\* String.prototype.toUpperCase on the type and label vocabulary of the model:
\* the table has every label and type with a lower-case letter that an input
\* of the model carries; the other labels and types are upper case already.
toUpperCase(s) ==
  IF s \in {"EXTENDS", "IMPLEMENTS", "ASSOCIATION", "AGGREGATION", "COMPOSITION",
            "DEPENDENCY", "CLASS", "INTERFACE", "ENUM", "FIELD", "METHOD",
            "CONSTRUCTOR", "PARAMETER"}
  THEN s
  ELSE
  CASE s = "extends" -> "EXTENDS"
    [] s = "implements" -> "IMPLEMENTS"
    [] s = "association" -> "ASSOCIATION"
    [] s = "aggregation" -> "AGGREGATION"
    [] s = "composition" -> "COMPOSITION"
    [] s = "dependency" -> "DEPENDENCY"
    [] s = "Class" -> "CLASS"
    [] s = "class" -> "CLASS"
    [] s = "Interface" -> "INTERFACE"
    [] s = "interface" -> "INTERFACE"
    [] s = "Enum" -> "ENUM"
    [] s = "enum" -> "ENUM"
    [] s = "Field" -> "FIELD"
    [] s = "field" -> "FIELD"
    [] s = "Method" -> "METHOD"
    [] s = "method" -> "METHOD"
    [] s = "Constructor" -> "CONSTRUCTOR"
    [] s = "constructor" -> "CONSTRUCTOR"
    [] s = "Parameter" -> "PARAMETER"
    [] s = "parameter" -> "PARAMETER"
    [] s = "Package" -> "PACKAGE"
    [] s = "Record" -> "RECORD"
    [] s = "Entity" -> "ENTITY"
    [] s = "Extends" -> "EXTENDS"
    [] s = "Implements" -> "IMPLEMENTS"
    [] s = "Association" -> "ASSOCIATION"
    [] s = "Aggregation" -> "AGGREGATION"
    [] s = "Composition" -> "COMPOSITION"
    [] s = "Dependency" -> "DEPENDENCY"
    [] OTHER -> s

(***************************************************************************)
(* Constants of classDiagram.ts.                                           *)
(***************************************************************************)
CLASS_LABELS == {"CLASS", "Class", "INTERFACE", "Interface", "ENUM", "Enum"}

CLASS_RELATION_TYPES ==
  {"EXTENDS", "IMPLEMENTS", "ASSOCIATION", "AGGREGATION", "COMPOSITION", "DEPENDENCY"}

OWNERSHIP_TYPES == {"COMPOSITION", "AGGREGATION", "ASSOCIATION"}

FIELD_LABELS == {"FIELD", "Field"}

METHOD_LABELS == {"METHOD", "Method", "CONSTRUCTOR", "Constructor"}

PARAMETER_LABELS == {"Parameter", "PARAMETER"}

\* RELATION_STRENGTH[type]; a missing key reads as undefined, which the code
\* treats as 0 (`|| 0`) or as falsy (`!RELATION_STRENGTH[type]`).
RELATION_STRENGTH(type) ==
  CASE type = "COMPOSITION" -> 3
    [] type = "AGGREGATION" -> 2
    [] type = "ASSOCIATION" -> 1
    [] OTHER -> 0

(***************************************************************************)
(* Node ids and graph values.                                              *)
(***************************************************************************)
idA == <<"A">>
idB == <<"B">>
idC == <<"C">>
idD == <<"D">>
\* The id "DEPENDENCY_TYPES": it starts with the name of a relation type.
idT == <<"DEPENDENCY", "_TYPES">>

Link(id, source, target, type, vo) ==
  [id |-> id, source |-> source, target |-> target, type |-> type,
   is_value_object |-> vo]

\* A GraphNode; the properties class_name, name and directory are "" when
\* the property is absent (the code reads them with `|| ''`), and the
\* embedded arrays properties.fields / properties.methods are empty when
\* absent (`|| []`).  An embedded member is [name |-> ...], its name "" when
\* it has none.
Node(id, labels, class_name, name, directory) ==
  [id |-> id, labels |-> labels, class_name |-> class_name, name |-> name,
   directory |-> directory, fields |-> <<>>, methods |-> <<>>]

\* The node with properties.fields and properties.methods set.
WithEmbedded(node, rawFields, rawMethods) ==
  [node EXCEPT !.fields = rawFields, !.methods = rawMethods]

\* `null` as a function result.
Null == [isNull |-> TRUE]

(***************************************************************************)
(* Node information.                                                       *)
(***************************************************************************)
getClassName(node) ==
  IF node.class_name # "" THEN node.class_name
  ELSE IF node.name # "" THEN node.name
  ELSE ""

getDirectory(node) == node.directory

isClassNode(node) == \E i \in 1..Len(node.labels) : node.labels[i] \in CLASS_LABELS

getClassType(node) ==
  IF \E i \in 1..Len(node.labels) : toUpperCase(node.labels[i]) = "INTERFACE" THEN "interface"
  ELSE IF \E i \in 1..Len(node.labels) : toUpperCase(node.labels[i]) = "ENUM" THEN "enum"
  ELSE "class"

(***************************************************************************)
(* Relationship predicates.                                                *)
(***************************************************************************)
isClassRelation(link) == toUpperCase(link.type) \in CLASS_RELATION_TYPES

isValueObjectDependency(link) ==
  IF toUpperCase(link.type) # "DEPENDENCY" THEN FALSE
  ELSE link.is_value_object = TRUE

(***************************************************************************)
(* Inheritance chain analysis.  A JS Map that is only read by key is a     *)
(* function; a missing key is a key outside its DOMAIN.                    *)
(***************************************************************************)
\* `const parents = map.get(key) || []; parents.push(v); map.set(key, parents)`
MapPush(map, key, v) ==
  IF key \in DOMAIN map
  THEN [map EXCEPT ![key] = Append(@, v)]
  ELSE [k \in DOMAIN map \cup {key} |-> IF k = key THEN <<v>> ELSE map[k]]

RECURSIVE buildInheritanceMapFrom(_, _, _)
buildInheritanceMapFrom(links, i, map) ==
  IF i > Len(links) THEN map
  ELSE LET type == toUpperCase(links[i].type)
       IN IF type = "EXTENDS" \/ type = "IMPLEMENTS"
          THEN buildInheritanceMapFrom(links, i + 1,
                 MapPush(map, links[i].source, links[i].target))
          ELSE buildInheritanceMapFrom(links, i + 1, map)

buildInheritanceMap(links) == buildInheritanceMapFrom(links, 1, <<>>)

\* The result of a call that may raise: `thrown` is TRUE when the call
\* raised (here: RangeError, the call stack exhausted), else `value` holds
\* what it returned.
Returned(v) == [thrown |-> FALSE, value |-> v]
Raised == [thrown |-> TRUE, value |-> {}]

\* getAllAncestors recurses into every parent with no visited set.  `stack`
\* is the set of node ids of the calls now on the call stack: a call for an
\* id already on the stack repeats itself without end and overflows it.
RECURSIVE getAllAncestorsRec(_, _, _)
getAllAncestorsRec(nodeId, inheritanceMap, stack) ==
  IF nodeId \in stack THEN Raised
  ELSE IF nodeId \notin DOMAIN inheritanceMap THEN Returned({})
  ELSE LET parents == inheritanceMap[nodeId]
           grand == [i \in 1..Len(parents) |->
                       getAllAncestorsRec(parents[i], inheritanceMap, stack \cup {nodeId})]
       IN IF \E i \in 1..Len(parents) : grand[i].thrown
          THEN Raised
          ELSE Returned(Range(parents) \cup UNION {grand[i].value : i \in 1..Len(parents)})

\* A walk that stops at the direct parents.
getAllAncestors_DirectOnly(nodeId, inheritanceMap) ==
  IF nodeId \notin DOMAIN inheritanceMap THEN Returned({})
  ELSE Returned(Range(inheritanceMap[nodeId]))

getAllAncestors(nodeId, inheritanceMap) == getAllAncestorsRec(nodeId, inheritanceMap, {})

\* `targetMap.set(link.target, type)` inside `map.get(link.source)`
OwnershipPut(map, source, target, type) ==
  LET targetMap == IF source \in DOMAIN map THEN map[source] ELSE <<>>
      newTargetMap == [t \in DOMAIN targetMap \cup {target} |->
                         IF t = target THEN type ELSE targetMap[t]]
  IN [k \in DOMAIN map \cup {source} |-> IF k = source THEN newTargetMap ELSE map[k]]

RECURSIVE buildOwnershipMapFrom(_, _, _)
buildOwnershipMapFrom(links, i, map) ==
  IF i > Len(links) THEN map
  ELSE LET type == toUpperCase(links[i].type)
       IN IF type \in OWNERSHIP_TYPES
          THEN buildOwnershipMapFrom(links, i + 1,
                 OwnershipPut(map, links[i].source, links[i].target, type))
          ELSE buildOwnershipMapFrom(links, i + 1, map)

buildOwnershipMap(links) == buildOwnershipMapFrom(links, 1, <<>>)

isNoiseDependency(sourceId, targetId, inheritanceMap, ownershipMap) ==
  LET ancestors == getAllAncestors(sourceId, inheritanceMap)
  IN IF ancestors.thrown THEN [thrown |-> TRUE, value |-> FALSE]
     ELSE Returned(\E ancestor \in ancestors.value :
                     /\ ancestor \in DOMAIN ownershipMap
                     /\ targetId \in DOMAIN ownershipMap[ancestor])

(***************************************************************************)
(* Relationship filtering and deduplication.                               *)
(***************************************************************************)
\* A callback that also drops the associations.
KeepLink_DropsAssociation(link, inheritanceMap, ownershipMap) ==
  Returned(toUpperCase(link.type) \notin {"DEPENDENCY", "ASSOCIATION"})

\* The callback of links.filter: keep the link or not (or raise).
KeepLink(link, inheritanceMap, ownershipMap) ==
  IF toUpperCase(link.type) # "DEPENDENCY" THEN Returned(TRUE)
  ELSE IF isValueObjectDependency(link) THEN Returned(FALSE)
  ELSE LET noise == isNoiseDependency(link.source, link.target, inheritanceMap, ownershipMap)
       IN IF noise.thrown THEN noise ELSE Returned(~noise.value)

filterNoiseDependencies(links, inheritanceMap, ownershipMap) ==
  LET keep == [i \in 1..Len(links) |-> KeepLink(links[i], inheritanceMap, ownershipMap)]
  IN IF \E i \in 1..Len(links) : keep[i].thrown
     THEN [thrown |-> TRUE, value |-> <<>>]
     ELSE LET RECURSIVE kept(_)
              kept(i) == IF i > Len(links) THEN <<>>
                         ELSE IF keep[i].value THEN <<links[i]>> \o kept(i + 1)
                         ELSE kept(i + 1)
          IN Returned(kept(1))

\* `${link.source}::${link.target}` as a token sequence.
PairKey(link) == link.source \o <<"::">> \o link.target

\* `${key}::${type}`
DupKey(link) == PairKey(link) \o <<"::">> \o <<toUpperCase(link.type)>>

\* The Map `picked` is a sequence of entries [key, idx] in insertion order;
\* idx is the position of the picked link in the input array, which stands
\* for the identity of the link object.
PickedHas(picked, key) == \E e \in 1..Len(picked) : picked[e].key = key

PickedGet(picked, key) ==
  picked[CHOOSE e \in 1..Len(picked) : picked[e].key = key].idx

\* A Map whose new keys go to the front of the iteration order.
PickedSet_Prepend(picked, key, idx) ==
  IF PickedHas(picked, key)
  THEN [e \in 1..Len(picked) |->
          IF picked[e].key = key THEN [key |-> key, idx |-> idx] ELSE picked[e]]
  ELSE <<[key |-> key, idx |-> idx]>> \o picked

\* Map.set: a new key is appended, an existing key keeps its place.
PickedSet(picked, key, idx) ==
  IF PickedHas(picked, key)
  THEN [e \in 1..Len(picked) |->
          IF picked[e].key = key THEN [key |-> key, idx |-> idx] ELSE picked[e]]
  ELSE Append(picked, [key |-> key, idx |-> idx])

\* `RELATION_STRENGTH[type] > RELATION_STRENGTH[existingType]`
Stronger_OrEqual(type, existingType) ==
  RELATION_STRENGTH(type) >= RELATION_STRENGTH(existingType)

Stronger(type, existingType) ==
  RELATION_STRENGTH(type) > RELATION_STRENGTH(existingType)

\* The first loop of dedupeRelationships from link i on; the state of the
\* loop is <<picked, passthrough>>.
RECURSIVE dedupeLoop(_, _, _, _)
dedupeLoop(links, i, picked, passthrough) ==
  IF i > Len(links) THEN [picked |-> picked, passthrough |-> passthrough]
  ELSE LET link == links[i]
           type == toUpperCase(link.type)
           key == PairKey(link)
       IN IF RELATION_STRENGTH(type) = 0
          THEN LET dupKey == DupKey(link)
               IN IF ~PickedHas(picked, dupKey)
                  THEN dedupeLoop(links, i + 1, PickedSet(picked, dupKey, i),
                                  Append(passthrough, i))
                  ELSE dedupeLoop(links, i + 1, picked, passthrough)
          ELSE IF ~PickedHas(picked, key)
          THEN dedupeLoop(links, i + 1, PickedSet(picked, key, i), passthrough)
          ELSE LET existingType == toUpperCase(links[PickedGet(picked, key)].type)
               IN IF Stronger(type, existingType)
                  THEN dedupeLoop(links, i + 1, PickedSet(picked, key, i), passthrough)
                  ELSE dedupeLoop(links, i + 1, picked, passthrough)

\* `!key.includes('::EXTENDS') && !key.includes('::IMPLEMENTS') &&
\*  !key.includes('::DEPENDENCY')`
NotPassthroughKey(key) ==
  /\ ~Includes(key, <<"::", "EXTENDS">>)
  /\ ~Includes(key, <<"::", "IMPLEMENTS">>)
  /\ ~Includes(key, <<"::", "DEPENDENCY">>)

\* The picked.forEach that collects assocLike.
RECURSIVE assocLikeFrom(_, _, _)
assocLikeFrom(picked, e, passthrough) ==
  IF e > Len(picked) THEN <<>>
  ELSE IF NotPassthroughKey(picked[e].key) /\ picked[e].idx \notin Range(passthrough)
       THEN <<picked[e].idx>> \o assocLikeFrom(picked, e + 1, passthrough)
       ELSE assocLikeFrom(picked, e + 1, passthrough)

dedupeRelationships(links) ==
  LET loop == dedupeLoop(links, 1, <<>>, <<>>)
      assocLike == assocLikeFrom(loop.picked, 1, loop.passthrough)
      order == loop.passthrough \o assocLike
  IN [k \in 1..Len(order) |-> links[order[k]]]

(***************************************************************************)
(* Depth-bounded subgraph selector.                                        *)
(***************************************************************************)
\* Map.get(key)-then-add on the adjacency map: `to` is appended to the
\* neighbour set of `from` unless already present (a JS Set keeps insertion
\* order and ignores a repeated add).
AdjacencyAdd(adjacency, from, to) ==
  IF from \in DOMAIN adjacency
  THEN IF to \in Range(adjacency[from])
       THEN adjacency
       ELSE [adjacency EXCEPT ![from] = Append(@, to)]
  ELSE [k \in DOMAIN adjacency \cup {from} |->
          IF k = from THEN <<to>> ELSE adjacency[k]]

RECURSIVE buildAdjacencyFrom(_, _, _)
buildAdjacencyFrom(links, i, adjacency) ==
  IF i > Len(links) THEN adjacency
  ELSE IF ~isClassRelation(links[i])
       THEN buildAdjacencyFrom(links, i + 1, adjacency)
       ELSE buildAdjacencyFrom(links, i + 1,
              AdjacencyAdd(AdjacencyAdd(adjacency, links[i].source, links[i].target),
                           links[i].target, links[i].source))

buildAdjacency(links) == buildAdjacencyFrom(links, 1, <<>>)

\* `if (depth >= maxDepth) continue`
DepthReached_OffByOne(d, maxDepth) == d > maxDepth

DepthReached(d, maxDepth) == d >= maxDepth

RECURSIVE bfsLoop(_, _, _, _)
bfsLoop(queue, visited, adjacency, maxDepth) ==
  IF Len(queue) = 0 THEN visited
  ELSE LET head == Head(queue)
           rest == Tail(queue)
       IN IF DepthReached(head.depth, maxDepth)
          THEN bfsLoop(rest, visited, adjacency, maxDepth)
          ELSE IF head.id \notin DOMAIN adjacency
          THEN bfsLoop(rest, visited, adjacency, maxDepth)
          ELSE LET fresh == SelectSeq(adjacency[head.id], LAMBDA n : n \notin visited)
                   pushed == [i \in 1..Len(fresh) |->
                                [id |-> fresh[i], depth |-> head.depth + 1]]
               IN bfsLoop(rest \o pushed, visited \cup Range(fresh), adjacency, maxDepth)

\* Every id that occurs as an endpoint of a link.
LinkEndpoints(links) ==
  {links[i].source : i \in 1..Len(links)} \cup {links[i].target : i \in 1..Len(links)}

\* `if (startNodeIds.length === 0) return new Set()`
EmptyStart_SelectAll(links) == LinkEndpoints(links)

EmptyStart(links) == {}

\* `const visited = new Set<string>(startNodeIds)`
InitialVisited_Empty(startNodeIds) == {}

\* A visited set that misses the first start id.
InitialVisited_DropFirst(startNodeIds) ==
  IF Len(startNodeIds) = 0 THEN {} ELSE Range(Tail(startNodeIds))

InitialVisited(startNodeIds) == Range(startNodeIds)

\* `if (maxDepth <= 0) return visited`
StartOnly_Unlimited(visited, links) == visited \cup LinkEndpoints(links)

StartOnly(visited, links) == visited

getNodesWithinDepth(startNodeIds, links, maxDepth) ==
  IF Len(startNodeIds) = 0 THEN EmptyStart(links)
  ELSE LET visited == InitialVisited(startNodeIds)
       IN IF maxDepth <= 0 THEN StartOnly(visited, links)
          ELSE bfsLoop([i \in 1..Len(startNodeIds) |-> [id |-> startNodeIds[i], depth |-> 0]],
                       visited, buildAdjacency(links), maxDepth)

(***************************************************************************)
(* Graph data -> UML projection.                                           *)
(***************************************************************************)
\* `new Map(nodes.map(n => [n.id, n]))`: has(id), and get(id), which is the
\* last node of the list with that id.
NodeMapHas(nodeList, id) == \E i \in 1..Len(nodeList) : nodeList[i].id = id

NodeMapGet(nodeList, id) ==
  nodeList[CHOOSE i \in 1..Len(nodeList) :
             /\ nodeList[i].id = id
             /\ \A j \in (i + 1)..Len(nodeList) : nodeList[j].id # id]

isFieldNode(node) == \E i \in 1..Len(node.labels) : node.labels[i] \in FIELD_LABELS

isMethodNode(node) == \E i \in 1..Len(node.labels) : node.labels[i] \in METHOD_LABELS

isParameterNode(node) ==
  \E i \in 1..Len(node.labels) : node.labels[i] \in PARAMETER_LABELS

isConstructorNode(node) ==
  \E i \in 1..Len(node.labels) : toUpperCase(node.labels[i]) = "CONSTRUCTOR"

\* The body of the PARENT_OF loop of buildClassMembersMap once parent and
\* child are found and the parent is a class node: the entry of the parent
\* is created if missing, and the child is pushed if it is a field or a
\* method node.
MembersAdd(map, parentNode, childNode) ==
  [k \in DOMAIN map \cup {parentNode.id} |->
     IF k # parentNode.id THEN map[k]
     ELSE IF isFieldNode(childNode)
     THEN [fields |-> Append(IF k \in DOMAIN map THEN map[k].fields ELSE <<>>, childNode),
           methods |-> IF k \in DOMAIN map THEN map[k].methods ELSE <<>>]
     ELSE IF isMethodNode(childNode)
     THEN [fields |-> IF k \in DOMAIN map THEN map[k].fields ELSE <<>>,
           methods |-> Append(IF k \in DOMAIN map THEN map[k].methods ELSE <<>>, childNode)]
     ELSE [fields |-> IF k \in DOMAIN map THEN map[k].fields ELSE <<>>,
           methods |-> IF k \in DOMAIN map THEN map[k].methods ELSE <<>>]]

RECURSIVE buildClassMembersMapFrom(_, _, _, _)
buildClassMembersMapFrom(nodeList, links, i, map) ==
  IF i > Len(links) THEN map
  ELSE IF links[i].type # "PARENT_OF"
  THEN buildClassMembersMapFrom(nodeList, links, i + 1, map)
  ELSE IF ~NodeMapHas(nodeList, links[i].source) \/ ~NodeMapHas(nodeList, links[i].target)
  THEN buildClassMembersMapFrom(nodeList, links, i + 1, map)
  ELSE IF ~isClassNode(NodeMapGet(nodeList, links[i].source))
  THEN buildClassMembersMapFrom(nodeList, links, i + 1, map)
  ELSE buildClassMembersMapFrom(nodeList, links, i + 1,
         MembersAdd(map, NodeMapGet(nodeList, links[i].source),
                    NodeMapGet(nodeList, links[i].target)))

buildClassMembersMap(nodeList, links) == buildClassMembersMapFrom(nodeList, links, 1, <<>>)

\* The model's nodes carry no field_type, type, visibility or return_type
\* property, so those read as their defaults.
convertFieldNode(node) == [name |-> node.name, type |-> "", visibility |-> "private"]

\* The parameters of a method are not part of the model's UmlMethod.
convertMethodNode(node) ==
  [name |-> node.name, returnType |-> "void", visibility |-> "public",
   isConstructor |-> isConstructorNode(node)]

\* The `fields` of convertToUmlClass: from the members map when it has an
\* entry for the node, else from the embedded array.
umlFields(node, membersMap) ==
  IF node.id \in DOMAIN membersMap
  THEN SelectSeq([i \in 1..Len(membersMap[node.id].fields) |->
                    convertFieldNode(membersMap[node.id].fields[i])],
                 LAMBDA f : f.name # "")
  ELSE [i \in 1..Len(SelectSeq(node.fields, LAMBDA f : f.name # "")) |->
          [name |-> SelectSeq(node.fields, LAMBDA f : f.name # "")[i].name,
           type |-> "", visibility |-> "private"]]

\* The `methods` of convertToUmlClass.
umlMethods(node, membersMap) ==
  IF node.id \in DOMAIN membersMap
  THEN SelectSeq([i \in 1..Len(membersMap[node.id].methods) |->
                    convertMethodNode(membersMap[node.id].methods[i])],
                 LAMBDA mth : mth.name # "")
  ELSE [i \in 1..Len(SelectSeq(node.methods, LAMBDA mth : mth.name # "")) |->
          [name |-> SelectSeq(node.methods, LAMBDA mth : mth.name # "")[i].name,
           returnType |-> "void", visibility |-> "public", isConstructor |-> FALSE]]

\* `if (!className) return null`
NameMissing_Never(className) == FALSE

NameMissing(className) == className = ""

\* membersMap is <<>> when the optional argument is not passed.
convertToUmlClass(node, membersMap) ==
  IF ~isClassNode(node) THEN Null
  ELSE IF NameMissing(getClassName(node)) THEN Null
  ELSE [id |-> node.id, className |-> getClassName(node),
        directory |-> getDirectory(node), classType |-> getClassType(node),
        fields |-> umlFields(node, membersMap),
        methods |-> umlMethods(node, membersMap)]

convertToUmlRelationship(link, nodeList) ==
  IF ~isClassRelation(link) THEN Null
  ELSE IF ~NodeMapHas(nodeList, link.source) \/ ~NodeMapHas(nodeList, link.target) THEN Null
  ELSE LET sourceClassName == getClassName(NodeMapGet(nodeList, link.source))
           targetClassName == getClassName(NodeMapGet(nodeList, link.target))
       IN IF sourceClassName = "" \/ targetClassName = "" THEN Null
          ELSE [id |-> link.id, source |-> link.source, target |-> link.target,
                sourceClassName |-> sourceClassName,
                targetClassName |-> targetClassName,
                type |-> toUpperCase(link.type)]

\* `.filter(x => x !== null)`
NotNull(s) == SelectSeq(s, LAMBDA x : x # Null)

\* Step 4 of buildClassDiagramData: a class relation with both ends in the
\* map of class nodes.
IsClassLink_AnyEnds(link, classNodes) == isClassRelation(link)

IsClassLink(link, classNodes) ==
  /\ isClassRelation(link)
  /\ NodeMapHas(classNodes, link.source)
  /\ NodeMapHas(classNodes, link.target)

buildClassDiagramData(nodeList, links, selectedIds, maxDepth) ==
  LET classNodes == SelectSeq(nodeList, isClassNode)
      classLinks == SelectSeq(links, LAMBDA l : IsClassLink(l, classNodes))
      inheritanceMap == buildInheritanceMap(classLinks)
      ownershipMap == buildOwnershipMap(classLinks)
      membersMap == buildClassMembersMap(nodeList, links)
      filteredLinks == filterNoiseDependencies(classLinks, inheritanceMap, ownershipMap)
  IN IF filteredLinks.thrown
     THEN [thrown |-> TRUE, classes |-> <<>>, relationships |-> <<>>]
     ELSE LET dedupedLinks == dedupeRelationships(filteredLinks.value)
              validNodeIds == getNodesWithinDepth(selectedIds, dedupedLinks, maxDepth)
              validNodes == SelectSeq(classNodes, LAMBDA n : n.id \in validNodeIds)
              validLinks == SelectSeq(dedupedLinks,
                              LAMBDA l : l.source \in validNodeIds /\ l.target \in validNodeIds)
          IN [thrown |-> FALSE,
              classes |-> NotNull([i \in 1..Len(validNodes) |->
                                     convertToUmlClass(validNodes[i], membersMap)]),
              relationships |-> NotNull([i \in 1..Len(validLinks) |->
                                     convertToUmlRelationship(validLinks[i], nodeList)])]

\* `node?.id || null`: no match, or a match whose id is the empty string,
\* gives null; null is the empty token sequence here.
NoId == <<>>

findNodeIdByClassName(nodeList, className, directory) ==
  LET Matches(n) ==
        /\ isClassNode(n)
        /\ IF directory # ""
           THEN getClassName(n) = className /\ getDirectory(n) = directory
           ELSE getClassName(n) = className
      hits == SelectSeq(nodeList, Matches)
  IN IF Len(hits) = 0 THEN NoId ELSE hits[1].id

\* `.filter(id => id !== null)`
findNodeIdsByClassNames(nodeList, classInfos) ==
  SelectSeq([i \in 1..Len(classInfos) |->
               findNodeIdByClassName(nodeList, classInfos[i].className,
                                     classInfos[i].directory)],
            LAMBDA id : id # NoId)

(***************************************************************************)
(* SpecDepth: getNodesWithinDepth applied to bounded inputs.               *)
(***************************************************************************)
DepthLinkCandidates ==
  { Link("l1", idB, idA, "EXTENDS", FALSE),
    Link("l2", idC, idB, "COMPOSITION", FALSE),
    Link("l3", idD, idC, "dependency", FALSE),
    Link("l4", idA, idD, "IMPLEMENTS", FALSE),
    Link("l5", idA, idC, "ASSOCIATION", FALSE),
    Link("l6", idC, idD, "AGGREGATION", FALSE),
    Link("l7", idB, idD, "PARENT_OF", FALSE),
    Link("l8", idA, idB, "HAS_PARAMETER", FALSE),
    Link("l9", idC, idC, "DEPENDENCY", FALSE),
    Link("l10", idD, idA, "PARENT_OF", FALSE) }

DepthStartLists ==
  { <<>>, <<idA>>, <<idB>>, <<idC>>, <<idD>>, <<idA, idC>>, <<idB, idB>>, <<idD, idA>> }

CompIdle ==
  /\ selectedClasses = <<>>
  /\ layoutRunId = 0
  /\ inflight = {}
  /\ nodes = <<>>
  /\ edges = <<>>
  /\ diagramData = Null
  /\ issued = [id |-> 0, data |-> [thrown |-> FALSE, classes |-> <<>>, relationships |-> <<>>]]

\* The project store as created: both maps empty, nothing delivered.
StoreIdle ==
  /\ nodeMap = <<>>
  /\ linkMap = <<>>
  /\ delivered = [nodes |-> <<>>, links |-> <<>>, replaced |-> FALSE]

\* The store operations of the project store that set isProcessing.
StoreOps == {"uploadFiles", "parseFiles", "runUnderstanding", "runConvert"}

\* The asynchronous functions of the project store whose suspended calls the
\* model counts in `running`.
AsyncOps == StoreOps \cup {"deleteAllData"}

\* The process state of the project store and the upload view as created.
ProcIdle ==
  /\ isProcessing = FALSE
  /\ currentStep = ""
  /\ uploadedFiles = <<>>
  /\ uploadedDdlFiles = <<>>
  /\ running = [op \in AsyncOps |-> 0]
  /\ showModal = FALSE
  /\ pendingFiles = <<>>

\* The file viewer of the upload view as created; null is the empty token
\* sequence (NoId).
TabsIdle ==
  /\ openTabs = <<>>
  /\ activeTabId = <<>>
  /\ selectedRelPath = <<>>

InitDepth ==
  /\ graphNodes = <<>>
  /\ graphLinks \in SeqsUpTo(DepthLinkCandidates, MaxDepthLinks)
  /\ selectedNodeIds \in DepthStartLists
  /\ depth \in (-1)..MaxDepth
  /\ call = "none"
  /\ ret = {}
  /\ CompIdle
  /\ StoreIdle
  /\ ProcIdle
  /\ TabsIdle

CallGetNodesWithinDepth ==
  /\ call = "none"
  /\ call' = "getNodesWithinDepth"
  /\ ret' = getNodesWithinDepth(selectedNodeIds, graphLinks, depth)
  /\ UNCHANGED <<graphNodes, graphLinks, selectedNodeIds, depth>>
  /\ UNCHANGED compVars
  /\ UNCHANGED storeVars
  /\ UNCHANGED procVars
  /\ UNCHANGED tabVars

NextDepth == CallGetNodesWithinDepth

SpecDepth == InitDepth /\ [][NextDepth]_vars

(***************************************************************************)
(* SpecNoise: filterNoiseDependencies and buildClassDiagramData applied to *)
(* inheritance chains with owned targets.  Roles: A is the subclass X, B   *)
(* its parent P, C the grandparent Q, D the target Y.                      *)
(***************************************************************************)
NoiseLinkCandidates ==
  { Link("n1", idA, idB, "EXTENDS", FALSE),
    Link("n2", idB, idC, "implements", FALSE),
    Link("n3", idB, idD, "COMPOSITION", FALSE),
    Link("n4", idC, idD, "ASSOCIATION", FALSE),
    Link("n5", idA, idD, "DEPENDENCY", FALSE),
    Link("n6", idA, idD, "DEPENDENCY", TRUE),
    Link("n7", idA, idC, "dependency", FALSE),
    Link("n8", idA, idD, "AGGREGATION", FALSE),
    Link("n9", idC, idA, "EXTENDS", FALSE) }

NoiseNodeLists ==
  { << Node(idA, <<"Class">>, "X", "", "app"), Node(idB, <<"Class">>, "P", "", "app"),
       Node(idC, <<"Interface">>, "Q", "", "app"), Node(idD, <<"Class">>, "Y", "", "app") >>,
    << Node(idA, <<"Class">>, "X", "", "app"), Node(idB, <<"Record">>, "P", "", "app"),
       Node(idC, <<"Interface">>, "Q", "", "app"), Node(idD, <<"Class">>, "Y", "", "app") >> }

NoiseFocalLists == { <<idA>> }

PureIdle ==
  /\ graphNodes = <<>>
  /\ selectedNodeIds = <<>>
  /\ depth = 0
  /\ call = "none"
  /\ ret = {}

InitNoise ==
  /\ graphLinks \in SeqsUpTo(NoiseLinkCandidates, MaxNoiseLinks)
  /\ PureIdle
  /\ CompIdle
  /\ StoreIdle
  /\ ProcIdle
  /\ TabsIdle

CallFilterNoiseDependencies ==
  /\ call = "none"
  /\ call' = "filterNoiseDependencies"
  /\ ret' = filterNoiseDependencies(graphLinks, buildInheritanceMap(graphLinks),
                                    buildOwnershipMap(graphLinks))
  /\ UNCHANGED <<graphNodes, graphLinks, selectedNodeIds, depth>>
  /\ UNCHANGED compVars
  /\ UNCHANGED storeVars
  /\ UNCHANGED procVars
  /\ UNCHANGED tabVars

\* buildClassDiagramData(nodeList, graphLinks, focal, d) is called.
CallBuildClassDiagramData(nodeList, focal, d) ==
  /\ call = "none"
  /\ call' = "buildClassDiagramData"
  /\ graphNodes' = nodeList
  /\ selectedNodeIds' = focal
  /\ depth' = d
  /\ ret' = buildClassDiagramData(nodeList, graphLinks, focal, d)
  /\ UNCHANGED graphLinks
  /\ UNCHANGED compVars
  /\ UNCHANGED storeVars
  /\ UNCHANGED procVars
  /\ UNCHANGED tabVars

CallBuildOnChain ==
  \E nodeList \in NoiseNodeLists, focal \in NoiseFocalLists, d \in 1..MaxDepth :
    CallBuildClassDiagramData(nodeList, focal, d)

NextNoise == CallFilterNoiseDependencies \/ CallBuildOnChain

SpecNoise == InitNoise /\ [][NextNoise]_vars

(***************************************************************************)
(* SpecDedupe: dedupeRelationships applied to bounded link lists.          *)
(***************************************************************************)
DedupeLinkCandidates ==
  { Link("d1", idA, idB, "ASSOCIATION", FALSE),
    Link("d2", idA, idB, "COMPOSITION", FALSE),
    Link("d3", idA, idB, "aggregation", FALSE),
    Link("d4", idA, idB, "EXTENDS", FALSE),
    Link("d5", idA, idB, "extends", FALSE),
    Link("d6", idA, idB, "DEPENDENCY", FALSE),
    Link("d7", idB, idA, "COMPOSITION", FALSE),
    Link("d8", idA, idT, "COMPOSITION", FALSE),
    Link("d9", idA, idT, "EXTENDS", FALSE),
    Link("d10", idA, idT, "DEPENDENCY", FALSE) }

InitDedupe ==
  /\ graphLinks \in SeqsUpTo(DedupeLinkCandidates, MaxDedupeLinks)
  /\ PureIdle
  /\ CompIdle
  /\ StoreIdle
  /\ ProcIdle
  /\ TabsIdle

CallDedupeRelationships ==
  /\ call = "none"
  /\ call' = "dedupeRelationships"
  /\ ret' = dedupeRelationships(graphLinks)
  /\ UNCHANGED <<graphNodes, graphLinks, selectedNodeIds, depth>>
  /\ UNCHANGED compVars
  /\ UNCHANGED storeVars
  /\ UNCHANGED procVars
  /\ UNCHANGED tabVars

NextDedupe == CallDedupeRelationships

SpecDedupe == InitDedupe /\ [][NextDedupe]_vars

(***************************************************************************)
(* SpecNormalize: steps 5 to 7 of buildClassDiagramData (inheritance and   *)
(* ownership maps, noise filter, deduplication) applied to a link list and *)
(* then to their own output.                                               *)
(***************************************************************************)
\* Steps 5, 6 and 7 of buildClassDiagramData on the class links.
normalizeLinks(links) ==
  IF filterNoiseDependencies(links, buildInheritanceMap(links), buildOwnershipMap(links)).thrown
  THEN [thrown |-> TRUE, value |-> <<>>]
  ELSE Returned(dedupeRelationships(
         filterNoiseDependencies(links, buildInheritanceMap(links),
                                 buildOwnershipMap(links)).value))

\* The id "B::EXTENDS": with source A its pair key reads like the duplicate
\* key of an EXTENDS link A -> B.
idBX == <<"B", "::", "EXTENDS">>

NormalizeLinkCandidates ==
  { Link("m1", idA, idB, "EXTENDS", FALSE),
    Link("m2", idB, idD, "COMPOSITION", FALSE),
    Link("m3", idA, idD, "DEPENDENCY", FALSE),
    Link("m4", idB, idD, "association", FALSE),
    Link("m5", idA, idD, "dependency", FALSE),
    Link("m6", idA, idC, "AGGREGATION", FALSE),
    Link("m7", idA, idC, "DEPENDENCY", TRUE),
    Link("m8", idB, idT, "AGGREGATION", FALSE),
    Link("m9", idA, idT, "DEPENDENCY", FALSE),
    Link("m10", idA, idBX, "COMPOSITION", FALSE),
    Link("m11", idB, idA, "IMPLEMENTS", FALSE) }

InitNormalize ==
  /\ graphLinks \in SeqsUpTo(NormalizeLinkCandidates, MaxNormalizeLinks)
  /\ PureIdle
  /\ CompIdle
  /\ StoreIdle
  /\ ProcIdle
  /\ TabsIdle

\* The normalizer is applied to graphLinks and, if it returned, to what it
\* returned.
CallNormalizeTwice ==
  /\ call = "none"
  /\ call' = "normalizeTwice"
  /\ ret' = [once |-> normalizeLinks(graphLinks),
             twice |-> IF normalizeLinks(graphLinks).thrown
                       THEN normalizeLinks(graphLinks)
                       ELSE normalizeLinks(normalizeLinks(graphLinks).value)]
  /\ UNCHANGED <<graphNodes, graphLinks, selectedNodeIds, depth>>
  /\ UNCHANGED compVars
  /\ UNCHANGED storeVars
  /\ UNCHANGED procVars
  /\ UNCHANGED tabVars

NextNormalize == CallNormalizeTwice

SpecNormalize == InitNormalize /\ [][NextNormalize]_vars

(***************************************************************************)
(* SpecProjection: buildClassDiagramData applied to graphs whose nodes are *)
(* classes with and without a name, non-class nodes, and links to ids that *)
(* no node has.                                                            *)
(***************************************************************************)
ProjNodesA ==
  { WithEmbedded(Node(idA, <<"Class">>, "A", "", "pkg"),
                 << [name |-> "count"] >>, << [name |-> ""], [name |-> "run"] >>),
    Node(idA, <<"Class">>, "", "", "pkg") }
ProjNodesB ==
  { Node(idB, <<"Interface">>, "", "B", "pkg"), Node(idB, <<"Method">>, "", "B", ""),
    Node(idB, <<"Field">>, "", "b", "") }
ProjNodesC == { <<Node(idC, <<"CLASS", "Enum">>, "C", "c", "")>>, <<>> }

\* A node list in which the id of A occurs twice: an unnamed class node
\* followed by a named node that is not a class.
ProjDuplicateIds ==
  << Node(idA, <<"Class">>, "", "", "pkg"), Node(idA, <<"Method">>, "", "A", "pkg"),
     Node(idB, <<"Interface">>, "", "B", "pkg") >>

ProjNodeLists ==
  { <<a, b>> \o c : a \in ProjNodesA, b \in ProjNodesB, c \in ProjNodesC }
    \cup {ProjDuplicateIds}

ProjLinkCandidates ==
  { Link("p1", idA, idB, "EXTENDS", FALSE),
    Link("p2", idB, idC, "COMPOSITION", FALSE),
    Link("p3", idC, idA, "DEPENDENCY", FALSE),
    Link("p4", idA, idC, "association", FALSE),
    Link("p5", idB, idA, "IMPLEMENTS", FALSE),
    Link("p6", idA, idD, "AGGREGATION", FALSE),
    Link("p7", idA, idB, "PARENT_OF", FALSE) }

ProjFocalLists == { <<>>, <<idA>>, <<idB>>, <<idC, idA>>, <<idD>> }

InitProjection ==
  /\ graphNodes \in ProjNodeLists
  /\ graphLinks \in SeqsUpTo(ProjLinkCandidates, MaxProjLinks)
  /\ selectedNodeIds = <<>>
  /\ depth = 0
  /\ call = "none"
  /\ ret = {}
  /\ CompIdle
  /\ StoreIdle
  /\ ProcIdle
  /\ TabsIdle

CallBuildOnGraph ==
  \E focal \in ProjFocalLists, d \in (0 - 1)..MaxDepth :
    CallBuildClassDiagramData(graphNodes, focal, d)

NextProjection == CallBuildOnGraph

SpecProjection == InitProjection /\ [][NextProjection]_vars

(***************************************************************************)
(* Spec: the stress-layout diagram component.  Its props are graphNodes,   *)
(* graphLinks, selectedClasses and depth; three watchers call              *)
(* rebuildSafely, whose buildDiagram suspends in the layout oracle call.   *)
(* A displayed node is [id, isSelected, layout]: layout tells whether its  *)
(* position came from the oracle ("elk") or from the fallback grid.        *)
(***************************************************************************)
SelectedClass(className, directory) == [className |-> className, directory |-> directory]

CompNodeA == Node(idA, <<"Class">>, "A", "", "pkg")
CompNodeB == Node(idB, <<"Interface">>, "B", "", "pkg")
CompNodeC == Node(idC, <<"Class">>, "", "C", "pkg")
\* A class node with neither class_name nor name: convertToUmlClass drops it.
CompNodeD == Node(idD, <<"Class">>, "", "", "pkg")

\* The graph snapshots the parent hands to the component.
CompGraphs ==
  { [nodes |-> <<>>, links |-> <<>>],
    [nodes |-> <<CompNodeA, CompNodeB>>,
     links |-> << Link("g1", idB, idA, "EXTENDS", FALSE) >>],
    [nodes |-> <<CompNodeA, CompNodeB, CompNodeC>>,
     links |-> << Link("g1", idB, idA, "EXTENDS", FALSE),
                  Link("g2", idC, idB, "COMPOSITION", FALSE) >>],
    [nodes |-> <<CompNodeA, CompNodeB, CompNodeC>>,
     links |-> << Link("g1", idB, idA, "EXTENDS", FALSE) >>],
    [nodes |-> <<CompNodeD>>, links |-> <<>>] }

CompSelections ==
  { <<>>,
    << SelectedClass("A", "pkg") >>,
    << SelectedClass("C", "pkg") >>,
    << SelectedClass("B", ""), SelectedClass("Z", "") >>,
    << SelectedClass("", "pkg") >> }

\* Step 4 of buildDiagram: nodes.value from the classes of `data`, with
\* isSelected read from the props as they are when the step runs.
FlowNodes(data, sel, layout) ==
  [i \in 1..Len(data.classes) |->
     [id |-> data.classes[i].id,
      isSelected |-> \E k \in 1..Len(sel) :
                        /\ sel[k].className = data.classes[i].className
                        /\ sel[k].directory = data.classes[i].directory,
      layout |-> layout]]

\* Step 5 of buildDiagram: edges.value from the relationships of `data`.
FlowEdges(data) ==
  [i \in 1..Len(data.relationships) |->
     [id |-> data.relationships[i].id,
      source |-> data.relationships[i].source,
      target |-> data.relationships[i].target,
      type |-> data.relationships[i].type]]

\* The component state as a record, so that the synchronous part of
\* rebuildSafely can be applied both at mount and in the watchers.
CompState ==
  [layoutRunId |-> layoutRunId, inflight |-> inflight, nodes |-> nodes,
   edges |-> edges, diagramData |-> diagramData, issued |-> issued]

EmptyData == [thrown |-> FALSE, classes |-> <<>>, relationships |-> <<>>]

\* buildDiagram's early return: `nodes.value = []; edges.value = [];
\* diagramData.value = null; return`, by the rebuild with token myId.
ClearDiagram(cur, myId) ==
  [cur EXCEPT !.layoutRunId = myId, !.nodes = <<>>, !.edges = <<>>,
              !.diagramData = Null,
              !.issued = [id |-> myId, data |-> EmptyData]]

\* buildDiagram from `diagramData.value = data` to the oracle call.  If
\* buildClassDiagramData raised, the rejection is caught and logged by
\* rebuildSafely and nothing is written.  Otherwise the rebuild suspends in
\* `await calculateElkLayout(...)`: with classes until the oracle call
\* settles, with no classes (calculateElkLayout returns without calling the
\* oracle) until the continuation is run as a later job.  Steps 4 and 5
\* belong to that continuation in both cases.
LayoutDiagram(cur, myId, data) ==
  IF data.thrown
  THEN [cur EXCEPT !.layoutRunId = myId,
                   !.issued = [id |-> myId, data |-> EmptyData]]
  ELSE [cur EXCEPT !.layoutRunId = myId,
                   !.diagramData = data,
                   !.inflight = @ \cup {[id |-> myId, data |-> data]},
                   !.issued = [id |-> myId, data |-> data]]

\* buildDiagram from `if (selectedNodeIds.length === 0)` on.
buildDiagramFor(cur, myId, ids, gNodes, gLinks, d) ==
  IF Len(ids) = 0 THEN ClearDiagram(cur, myId)
  ELSE LayoutDiagram(cur, myId, buildClassDiagramData(gNodes, gLinks, ids, d))

\* buildDiagram up to its first suspension, run by the rebuild with token
\* myId.  `issued` records what this rebuild computed.
buildDiagram(cur, myId, sel, gNodes, gLinks, d) ==
  IF Len(sel) = 0 \/ Len(gNodes) = 0 THEN ClearDiagram(cur, myId)
  ELSE buildDiagramFor(cur, myId, findNodeIdsByClassNames(gNodes, sel), gNodes, gLinks, d)

\* rebuildSafely up to the first suspension: `const myId = ++layoutRunId`,
\* then `await buildDiagram()`.
rebuildSafely(cur, sel, gNodes, gLinks, d) ==
  buildDiagram(cur, cur.layoutRunId + 1, sel, gNodes, gLinks, d)

SetCompState(new) ==
  /\ layoutRunId' = new.layoutRunId
  /\ inflight' = new.inflight
  /\ nodes' = new.nodes
  /\ edges' = new.edges
  /\ diagramData' = new.diagramData
  /\ issued' = new.issued

Unmounted ==
  [layoutRunId |-> 0, inflight |-> {}, nodes |-> <<>>, edges |-> <<>>,
   diagramData |-> Null, issued |-> [id |-> 0, data |-> EmptyData]]

\* After setup: the selectedClasses watcher is `immediate`, so rebuildSafely
\* has run once on the initial props.
Init ==
  \E g \in CompGraphs, sel \in CompSelections, d \in 1..MaxDepth :
    /\ graphNodes = g.nodes
    /\ graphLinks = g.links
    /\ selectedClasses = sel
    /\ depth = d
    /\ selectedNodeIds = <<>>
    /\ call = "none"
    /\ ret = {}
    /\ StoreIdle
    /\ ProcIdle
    /\ TabsIdle
    /\ LET new == rebuildSafely(Unmounted, sel, g.nodes, g.links, d)
       IN /\ layoutRunId = new.layoutRunId
          /\ inflight = new.inflight
          /\ nodes = new.nodes
          /\ edges = new.edges
          /\ diagramData = new.diagramData
          /\ issued = new.issued

\* watch(() => props.selectedClasses, ..., { deep: true })
SelectionChange ==
  /\ layoutRunId < MaxRuns
  /\ \E sel \in CompSelections \ {selectedClasses} :
       /\ selectedClasses' = sel
       /\ SetCompState(rebuildSafely(CompState, sel, graphNodes, graphLinks, depth))
  /\ UNCHANGED pureVars
  /\ UNCHANGED storeVars
  /\ UNCHANGED procVars
  /\ UNCHANGED tabVars

\* watch(() => props.depth, ...)
DepthChange ==
  /\ layoutRunId < MaxRuns
  /\ \E d \in (1..MaxDepth) \ {depth} :
       /\ depth' = d
       /\ IF Len(selectedClasses) > 0
          THEN SetCompState(rebuildSafely(CompState, selectedClasses, graphNodes, graphLinks, d))
          ELSE SetCompState(CompState)
  /\ UNCHANGED <<graphNodes, graphLinks, selectedNodeIds, call, ret, selectedClasses>>
  /\ UNCHANGED storeVars
  /\ UNCHANGED procVars
  /\ UNCHANGED tabVars

\* watch(() => props.graphNodes.length, ...): the parent replaces the graph;
\* the watcher runs only when the number of nodes changed.
GraphChange ==
  /\ layoutRunId < MaxRuns
  /\ \E g \in CompGraphs :
       /\ <<g.nodes, g.links>> # <<graphNodes, graphLinks>>
       /\ graphNodes' = g.nodes
       /\ graphLinks' = g.links
       /\ IF Len(g.nodes) # Len(graphNodes) /\ Len(selectedClasses) > 0
          THEN SetCompState(rebuildSafely(CompState, selectedClasses, g.nodes, g.links, depth))
          ELSE SetCompState(CompState)
  /\ UNCHANGED <<selectedNodeIds, depth, call, ret, selectedClasses>>
  /\ UNCHANGED storeVars
  /\ UNCHANGED procVars
  /\ UNCHANGED tabVars

\* A check that lets a completed rebuild write only when no other rebuild
\* is still suspended.
TokenCheck_WaitForOthers(myId, new) ==
  IF new.inflight # {} THEN [CompState EXCEPT !.inflight = new.inflight] ELSE new

\* `if (myId !== layoutRunId) return` at the end of rebuildSafely: both
\* branches return, after buildDiagram has already written its result.
TokenCheck(myId, new) == new

\* The oracle call of rebuild r settles ("elk": it resolved, "grid": it
\* raised and the fallback grid was used), or, for a rebuild without
\* classes, its continuation is run; buildDiagram resumes at step 4 and
\* writes nodes.value and edges.value, then rebuildSafely compares the
\* tokens.
Settle(r, layout) ==
  /\ SetCompState(TokenCheck(r.id,
       [CompState EXCEPT !.nodes = FlowNodes(r.data, selectedClasses, layout),
                         !.edges = FlowEdges(r.data),
                         !.inflight = @ \ {r}]))
  /\ UNCHANGED pureVars
  /\ UNCHANGED selectedClasses
  /\ UNCHANGED storeVars
  /\ UNCHANGED procVars
  /\ UNCHANGED tabVars

LayoutSettles == \E r \in inflight, layout \in {"elk", "grid"} : Settle(r, layout)

Next == SelectionChange \/ DepthChange \/ GraphChange \/ LayoutSettles

Spec == Init /\ [][Next]_vars

(***************************************************************************)
(* SpecHung: the component when the oracle call of the first rebuild never *)
(* settles.  The oracle calls of the other rebuilds settle sooner or       *)
(* later: each is a promise of its own, and its continuation runs once it  *)
(* settles whatever else is pending.                                       *)
(***************************************************************************)
HungRunId == 1

\* The oracle call of a rebuild other than the hung one settles; a rebuild
\* without classes has no oracle call and resumes in any case.
LayoutSettlesNotHung ==
  \E r \in inflight, layout \in {"elk", "grid"} :
    /\ r.id # HungRunId \/ Len(r.data.classes) = 0
    /\ Settle(r, layout)

\* The oracle call of the rebuild with token k settles.
SettleRun(k) ==
  \E r \in inflight, layout \in {"elk", "grid"} : r.id = k /\ Settle(r, layout)

\* The continuation of a rebuild without classes is run.
SettleWithoutOracle ==
  \E r \in inflight : Len(r.data.classes) = 0 /\ Settle(r, "elk")

NextHung == SelectionChange \/ DepthChange \/ GraphChange \/ LayoutSettlesNotHung

SpecHung ==
  /\ Init
  /\ [][NextHung]_vars
  /\ \A k \in (HungRunId + 1)..MaxRuns : WF_vars(SettleRun(k))
  /\ WF_vars(SettleWithoutOracle)

(***************************************************************************)
(* SpecLayout: calculateElkLayout of the stress-layout component on class  *)
(* lists of mixed heights, with a layout oracle (elk.layout) that throws.  *)
(* A position map is a function from class id to [x, y].                   *)
(***************************************************************************)
NODE_WIDTH == 300

Min(a, b) == IF a < b THEN a ELSE b

\* One section of calculateNodeHeight: `count > 0 ? count * memberHeight +
\* sectionPadding + dividerHeight : minSectionHeight + dividerHeight`, with
\* count = Math.min(length, 8).
sectionHeight(length) ==
  IF Min(length, 8) > 0 THEN (Min(length, 8) * 22) + 8 + 2 ELSE 24 + 2

calculateNodeHeight(umlClass) ==
  56 + sectionHeight(Len(umlClass.fields)) + sectionHeight(Len(umlClass.methods)) + 20

\* Math.floor(Math.sqrt(n))
gridColumns_Floor(n) == CHOOSE c \in 0..n : c * c <= n /\ (c + 1) * (c + 1) > n

\* Math.ceil(Math.sqrt(n))
gridColumns(n) == CHOOSE c \in 0..n : c * c >= n /\ (c = 0 \/ (c - 1) * (c - 1) < n)

\* The position that the fallback grid sets for the class at index i
\* (counted from 0) of a list of n classes.
gridPosition(cls, i, n) ==
  [x |-> (i % gridColumns(n)) * (NODE_WIDTH + 300),
   y |-> (i \div gridColumns(n)) * (calculateNodeHeight(cls) + 200)]

\* The catch branch of calculateElkLayout: classes.forEach sets the grid
\* position of every class; for an id that occurs twice the later set wins.
fallbackGrid(classes) ==
  [id \in {classes[i].id : i \in 1..Len(classes)} |->
     gridPosition(classes[CHOOSE i \in 1..Len(classes) :
                            /\ classes[i].id = id
                            /\ \A j \in (i + 1)..Len(classes) : classes[j].id # id],
                  (CHOOSE i \in 1..Len(classes) :
                     /\ classes[i].id = id
                     /\ \A j \in (i + 1)..Len(classes) : classes[j].id # id) - 1,
                  Len(classes))]

\* calculateElkLayout when elk.layout throws or rejects: with no classes it
\* returns the empty map before the oracle is called; otherwise the error is
\* caught and logged, and the grid positions are returned.
calculateElkLayoutOracleThrows(classes) ==
  IF Len(classes) = 0
  THEN [thrown |-> FALSE, positions |-> <<>>]
  ELSE [thrown |-> FALSE, positions |-> fallbackGrid(classes)]

idE == <<"E">>
idF == <<"F">>
idG == <<"G">>

LayoutIds == <<idA, idB, idC, idD, idE, idF, idG>>

EmbeddedMembers(n) == [i \in 1..n |-> [name |-> "m"]]

\* Class nodes of three heights: no members, 8 fields and 8 methods, 9
\* fields and 1 method.
LayoutClassNode(id, variant) ==
  CASE variant = 1 -> Node(id, <<"Class">>, "K", "", "pkg")
    [] variant = 2 -> WithEmbedded(Node(id, <<"Class">>, "K", "", "pkg"),
                                   EmbeddedMembers(8), EmbeddedMembers(8))
    [] OTHER -> WithEmbedded(Node(id, <<"Interface">>, "K", "", "pkg"),
                             EmbeddedMembers(9), EmbeddedMembers(1))

InitLayout ==
  /\ \E k \in 0..MaxLayoutClasses :
       \E v \in [1..k -> 1..3] :
         graphNodes = [i \in 1..k |-> LayoutClassNode(LayoutIds[i], v[i])]
  /\ graphLinks = <<>>
  /\ selectedNodeIds = <<>>
  /\ depth = 0
  /\ call = "none"
  /\ ret = {}
  /\ CompIdle
  /\ StoreIdle
  /\ ProcIdle
  /\ TabsIdle

\* The classes of the diagram, as buildDiagram hands them to
\* calculateElkLayout.
LayoutClasses(nodeList) ==
  [i \in 1..Len(nodeList) |-> convertToUmlClass(nodeList[i], <<>>)]

CallCalculateElkLayoutOracleThrows ==
  /\ call = "none"
  /\ call' = "calculateElkLayout"
  /\ ret' = calculateElkLayoutOracleThrows(LayoutClasses(graphNodes))
  /\ UNCHANGED <<graphNodes, graphLinks, selectedNodeIds, depth>>
  /\ UNCHANGED compVars
  /\ UNCHANGED storeVars
  /\ UNCHANGED procVars
  /\ UNCHANGED tabVars

NextLayout == CallCalculateElkLayoutOracleThrows

SpecLayout == InitLayout /\ [][NextLayout]_vars

(***************************************************************************)
(* SpecLabels: the role predicates and getClassType applied to one node    *)
(* whose labels are drawn from the spellings of the label vocabularies.    *)
(***************************************************************************)
LabelSpellings ==
  { "CLASS", "Class", "class", "INTERFACE", "Interface", "interface",
    "ENUM", "enum", "FIELD", "Field", "field", "METHOD", "method",
    "Constructor", "PARAMETER", "Parameter", "parameter", "Package" }

InitLabels ==
  /\ graphNodes \in { <<Node(idA, labels, "A", "a", "pkg")>> :
                         labels \in SeqsUpTo(LabelSpellings, MaxLabels) }
  /\ graphLinks = <<>>
  /\ selectedNodeIds = <<>>
  /\ depth = 0
  /\ call = "none"
  /\ ret = {}
  /\ CompIdle
  /\ StoreIdle
  /\ ProcIdle
  /\ TabsIdle

\* isClassNode(node), isFieldNode(node), isMethodNode(node),
\* isParameterNode(node) and getClassType(node) are called on the node.
CallRolePredicates ==
  /\ call = "none"
  /\ call' = "rolePredicates"
  /\ ret' = [isClassNode |-> isClassNode(graphNodes[1]),
             isFieldNode |-> isFieldNode(graphNodes[1]),
             isMethodNode |-> isMethodNode(graphNodes[1]),
             isParameterNode |-> isParameterNode(graphNodes[1]),
             getClassType |-> getClassType(graphNodes[1])]
  /\ UNCHANGED <<graphNodes, graphLinks, selectedNodeIds, depth>>
  /\ UNCHANGED compVars
  /\ UNCHANGED storeVars
  /\ UNCHANGED procVars
  /\ UNCHANGED tabVars

NextLabels == CallRolePredicates

SpecLabels == InitLabels /\ [][NextLabels]_vars

(***************************************************************************)
(* SpecStore: the graph part of the project store.  A Map is a sequence of *)
(* entries [key, value] in insertion order.  A Neo4jNode is                *)
(* [Node_ID, Labels, Properties], a Neo4jRelationship is [Relationship_ID, *)
(* Start_Node_ID, End_Node_ID, Type, Properties].                          *)
(***************************************************************************)
convertNeo4jNode(node) ==
  [id |-> node.Node_ID, labels |-> node.Labels, properties |-> node.Properties]

convertNeo4jRelationship(rel) ==
  [id |-> rel.Relationship_ID, source |-> rel.Start_Node_ID,
   target |-> rel.End_Node_ID, type |-> rel.Type, properties |-> rel.Properties]

MapHas(map, key) == \E e \in 1..Len(map) : map[e].key = key

\* A set that never replaces the value of a key the map already has.
MapSet_KeepFirst(map, key, value) ==
  IF MapHas(map, key) THEN map ELSE Append(map, [key |-> key, value |-> value])

\* Map.prototype.set: the value of an existing key is replaced in place, a
\* new key is appended.
MapSet(map, key, value) ==
  IF MapHas(map, key)
  THEN [e \in 1..Len(map) |->
          IF map[e].key = key THEN [key |-> key, value |-> value] ELSE map[e]]
  ELSE Append(map, [key |-> key, value |-> value])

\* Array.from(map.values())
MapValues(map) == [e \in 1..Len(map) |-> map[e].value]

\* `for (const node of nodes) { newNodeMap.set(converted.id, converted) }`
RECURSIVE setNodesFrom(_, _, _)
setNodesFrom(map, batch, i) ==
  IF i > Len(batch) THEN map
  ELSE setNodesFrom(MapSet(map, convertNeo4jNode(batch[i]).id, convertNeo4jNode(batch[i])),
                    batch, i + 1)

\* `for (const rel of relationships) { newLinkMap.set(converted.id, converted) }`
RECURSIVE setLinksFrom(_, _, _)
setLinksFrom(map, batch, i) ==
  IF i > Len(batch) THEN map
  ELSE setLinksFrom(MapSet(map, convertNeo4jRelationship(batch[i]).id,
                           convertNeo4jRelationship(batch[i])),
                    batch, i + 1)

\* The computed graphData of the store.
graphData == [nodes |-> MapValues(nodeMap), links |-> MapValues(linkMap)]

Neo4jNodeCandidates ==
  { [Node_ID |-> "1", Labels |-> <<"Class">>, Properties |-> [name |-> "Order"]],
    [Node_ID |-> "1", Labels |-> <<"Class", "Entity">>,
     Properties |-> [directory |-> "src"]],
    [Node_ID |-> "2", Labels |-> <<"Interface">>, Properties |-> [name |-> "Repo"]],
    [Node_ID |-> "2", Labels |-> <<"Interface">>,
     Properties |-> [name |-> "Repo", directory |-> "src"]] }

Neo4jRelationshipCandidates ==
  { [Relationship_ID |-> "r1", Start_Node_ID |-> "1", End_Node_ID |-> "2",
     Type |-> "IMPLEMENTS", Properties |-> [label |-> "x"]],
    [Relationship_ID |-> "r1", Start_Node_ID |-> "2", End_Node_ID |-> "1",
     Type |-> "DEPENDENCY", Properties |-> [is_value_object |-> TRUE]],
    [Relationship_ID |-> "r2", Start_Node_ID |-> "1", End_Node_ID |-> "1",
     Type |-> "ASSOCIATION", Properties |-> [label |-> "y"]] }

\* History: the latest raw entry per id after a batch of [key, raw] pairs, in
\* delivery order.
RECURSIVE LatestAfter(_, _)
LatestAfter(latest, keyed) ==
  IF Len(keyed) = 0 THEN latest
  ELSE LatestAfter([k \in DOMAIN latest \cup {Head(keyed).key} |->
                      IF k = Head(keyed).key THEN Head(keyed).raw ELSE latest[k]],
                   Tail(keyed))

\* History: some entry of the batch replaces a different entry delivered
\* before it.
RECURSIVE ReplacesIn(_, _)
ReplacesIn(latest, keyed) ==
  IF Len(keyed) = 0 THEN FALSE
  ELSE \/ /\ Head(keyed).key \in DOMAIN latest
          /\ latest[Head(keyed).key] # Head(keyed).raw
       \/ ReplacesIn(LatestAfter(latest, <<Head(keyed)>>), Tail(keyed))

KeyedNodes(batch) ==
  [i \in 1..Len(batch) |-> [key |-> batch[i].Node_ID, raw |-> batch[i]]]

KeyedRels(batch) ==
  [i \in 1..Len(batch) |-> [key |-> batch[i].Relationship_ID, raw |-> batch[i]]]

InitStore ==
  /\ graphLinks = <<>>
  /\ PureIdle
  /\ CompIdle
  /\ StoreIdle
  /\ ProcIdle
  /\ TabsIdle

\* updateGraphData(nodeBatch, relBatch)
UpdateGraphData ==
  \E nodeBatch \in SeqsUpTo(Neo4jNodeCandidates, MaxBatch),
     relBatch \in SeqsUpTo(Neo4jRelationshipCandidates, MaxBatch) :
    /\ nodeMap' = setNodesFrom(nodeMap, nodeBatch, 1)
    /\ linkMap' = setLinksFrom(linkMap, relBatch, 1)
    /\ delivered' =
         [nodes |-> LatestAfter(delivered.nodes, KeyedNodes(nodeBatch)),
          links |-> LatestAfter(delivered.links, KeyedRels(relBatch)),
          replaced |-> \/ delivered.replaced
                       \/ ReplacesIn(delivered.nodes, KeyedNodes(nodeBatch))
                       \/ ReplacesIn(delivered.links, KeyedRels(relBatch))]
    /\ UNCHANGED pureVars
    /\ UNCHANGED compVars
    /\ UNCHANGED procVars
    /\ UNCHANGED tabVars

\* clearGraphData()
ClearGraphData ==
  /\ nodeMap' = <<>>
  /\ linkMap' = <<>>
  /\ delivered' = [nodes |-> <<>>, links |-> <<>>, replaced |-> FALSE]
  /\ UNCHANGED pureVars
  /\ UNCHANGED compVars
  /\ UNCHANGED procVars
  /\ UNCHANGED tabVars

\* reset(): the files, the graph (clearGraphData()) and the process state
\* go back to their initial values; suspended calls stay suspended.
reset ==
  /\ uploadedFiles' = <<>>
  /\ uploadedDdlFiles' = <<>>
  /\ nodeMap' = <<>>
  /\ linkMap' = <<>>
  /\ delivered' = [nodes |-> <<>>, links |-> <<>>, replaced |-> FALSE]
  /\ isProcessing' = FALSE
  /\ currentStep' = ""

\* handleNewSession of the settings dialog: projectStore.reset().
HandleNewSession ==
  /\ reset
  /\ UNCHANGED <<running, showModal, pendingFiles>>
  /\ UNCHANGED pureVars
  /\ UNCHANGED compVars
  /\ UNCHANGED tabVars

NextStore == UpdateGraphData \/ ClearGraphData \/ HandleNewSession

SpecStore == InitStore /\ [][NextStore]_vars

(***************************************************************************)
(* SpecHierarchy: calculateHierarchicalLayout of the hierarchical-layout   *)
(* component, applied to class lists of two heights and relationship       *)
(* lists.  The Map `levels` is a sequence of entries [id, level] in        *)
(* insertion order; the position map is a function from class id to [x, y].*)
(***************************************************************************)
nodeWidth == 320
nodeHeight == 280
gapX == 60
gapY == 80

\* The loop over relationships that fills childToParent (byChild = TRUE) or
\* parentToChildren (byChild = FALSE).
RECURSIVE hierarchyMapFrom(_, _, _, _)
hierarchyMapFrom(relationships, i, map, byChild) ==
  IF i > Len(relationships) THEN map
  ELSE IF relationships[i].type = "EXTENDS" \/ relationships[i].type = "IMPLEMENTS"
  THEN hierarchyMapFrom(relationships, i + 1,
         IF byChild
         THEN MapPush(map, relationships[i].source, relationships[i].target)
         ELSE MapPush(map, relationships[i].target, relationships[i].source),
         byChild)
  ELSE hierarchyMapFrom(relationships, i + 1, map, byChild)

\* `map.get(id) || []`
GetOrEmpty(map, id) == IF id \in DOMAIN map THEN map[id] ELSE <<>>

ClassIds(classes) == {classes[i].id : i \in 1..Len(classes)}

\* `parents.some(p => classIds.has(p))`
hasParentInDiagram(cls, childToParent, classIds) ==
  \E p \in 1..Len(GetOrEmpty(childToParent, cls.id)) :
    GetOrEmpty(childToParent, cls.id)[p] \in classIds

IsRoot(cls, childToParent, classIds) == ~hasParentInDiagram(cls, childToParent, classIds)

\* The ids of the classes without a parent in the diagram, in class order.
hierarchyRoots(classes, childToParent) ==
  [i \in 1..Len(SelectSeq(classes,
                          LAMBDA c : IsRoot(c, childToParent, ClassIds(classes)))) |->
     SelectSeq(classes, LAMBDA c : IsRoot(c, childToParent, ClassIds(classes)))[i].id]

\* The children pushed for the entry taken from the queue.
pushedChildren(id, level, visited, parentToChildren, classIds) ==
  [i \in 1..Len(SelectSeq(GetOrEmpty(parentToChildren, id),
                          LAMBDA ch : ch \in classIds /\ ch \notin visited)) |->
     [id |-> SelectSeq(GetOrEmpty(parentToChildren, id),
                       LAMBDA ch : ch \in classIds /\ ch \notin visited)[i],
      level |-> level + 1]]

\* The BFS loop: `while (queue.length > 0)`.
RECURSIVE assignLevels(_, _, _, _, _)
assignLevels(queue, visited, levels, parentToChildren, classIds) ==
  IF Len(queue) = 0 THEN levels
  ELSE IF Head(queue).id \in visited
  THEN assignLevels(Tail(queue), visited, levels, parentToChildren, classIds)
  ELSE assignLevels(
         Tail(queue) \o pushedChildren(Head(queue).id, Head(queue).level,
                                       visited \cup {Head(queue).id},
                                       parentToChildren, classIds),
         visited \cup {Head(queue).id},
         Append(levels, Head(queue)),
         parentToChildren, classIds)

LevelsHas(levels, id) == \E e \in 1..Len(levels) : levels[e].id = id

LevelOf(levels, id) == levels[CHOOSE e \in 1..Len(levels) : levels[e].id = id].level

\* `if (!levels.has(cls.id)) levels.set(cls.id, 0)` for every class.
RECURSIVE defaultLevels(_, _, _)
defaultLevels(classes, i, levels) ==
  IF i > Len(classes) THEN levels
  ELSE IF LevelsHas(levels, classes[i].id)
  THEN defaultLevels(classes, i + 1, levels)
  ELSE defaultLevels(classes, i + 1, Append(levels, [id |-> classes[i].id, level |-> 0]))

\* The levels of calculateHierarchicalLayout.
hierarchyLevels(classes, relationships) ==
  defaultLevels(classes, 1,
    assignLevels(
      [i \in 1..Len(hierarchyRoots(classes, hierarchyMapFrom(relationships, 1, <<>>, TRUE))) |->
         [id |-> hierarchyRoots(classes, hierarchyMapFrom(relationships, 1, <<>>, TRUE))[i],
          level |-> 0]],
      {}, <<>>,
      hierarchyMapFrom(relationships, 1, <<>>, FALSE),
      ClassIds(classes)))

\* levelGroups.get(level): the ids of the level in the order of `levels`.
levelGroup(levels, level) ==
  [i \in 1..Len(SelectSeq(levels, LAMBDA e : e.level = level)) |->
     SelectSeq(levels, LAMBDA e : e.level = level)[i].id]

\* The index (from 0) of the id in its group.
indexInGroup(group, id) == (CHOOSE i \in 1..Len(group) : group[i] = id) - 1

\* totalWidth is a multiple of 2 (380 * n - 60), so startX is an integer.
hierarchyPosition(levels, id) ==
  [x |-> (0 - ((Len(levelGroup(levels, LevelOf(levels, id))) * nodeWidth
                 + (Len(levelGroup(levels, LevelOf(levels, id))) - 1) * gapX) \div 2))
          + indexInGroup(levelGroup(levels, LevelOf(levels, id)), id) * (nodeWidth + gapX),
   y |-> LevelOf(levels, id) * (nodeHeight + gapY)]

positionsOfLevels(levels) ==
  [id \in {levels[e].id : e \in 1..Len(levels)} |-> hierarchyPosition(levels, id)]

calculateHierarchicalLayout(classes, relationships) ==
  positionsOfLevels(hierarchyLevels(classes, relationships))

HierLinkCandidates ==
  { Link("h1", idB, idA, "EXTENDS", FALSE),
    Link("h2", idC, idA, "IMPLEMENTS", FALSE),
    Link("h3", idC, idB, "EXTENDS", FALSE),
    Link("h4", idA, idC, "EXTENDS", FALSE),
    Link("h5", idC, idD, "IMPLEMENTS", FALSE),
    Link("h6", idA, idB, "ASSOCIATION", FALSE) }

InitHierarchy ==
  /\ \E k \in 0..MaxHierClasses :
       \E v \in [1..k -> 1..2] :
         graphNodes = [i \in 1..k |-> LayoutClassNode(LayoutIds[i], v[i])]
  /\ graphLinks \in SeqsUpTo(HierLinkCandidates, MaxHierLinks)
  /\ selectedNodeIds = <<>>
  /\ depth = 0
  /\ call = "none"
  /\ ret = {}
  /\ CompIdle
  /\ StoreIdle
  /\ ProcIdle
  /\ TabsIdle

\* calculateHierarchicalLayout(data.classes, data.relationships) is called.
CallCalculateHierarchicalLayout ==
  /\ call = "none"
  /\ call' = "calculateHierarchicalLayout"
  /\ ret' = [levels |-> hierarchyLevels(LayoutClasses(graphNodes), graphLinks),
             positions |-> calculateHierarchicalLayout(LayoutClasses(graphNodes), graphLinks)]
  /\ UNCHANGED <<graphNodes, graphLinks, selectedNodeIds, depth>>
  /\ UNCHANGED compVars
  /\ UNCHANGED storeVars
  /\ UNCHANGED procVars
  /\ UNCHANGED tabVars

NextHierarchy == CallCalculateHierarchicalLayout

SpecHierarchy == InitHierarchy /\ [][NextHierarchy]_vars

(***************************************************************************)
(* SpecResolve: resolveOverlaps.  The Maps `positions` and `sizes` are     *)
(* sequences indexed alike, in the key order of `positions`.  The code     *)
(* computes in double precision; the model carries a coordinate only while *)
(* it is an integer.  That is the case as long as every push is along an   *)
(* axis: the centres of the two boxes differ along one axis only (the      *)
(* normalised direction is a unit vector of that axis, the push exactly    *)
(* 100), or they coincide and Math.random() returns 0 (angle 0, direction  *)
(* (1, 0)).  After any other push (centres that differ along both axes,    *)
(* any other value of Math.random()) the positions are not integers: the   *)
(* model marks them as not carried (known = FALSE), which stands for any   *)
(* positions, and the result of checkOverlap on them, hence hasOverlap of  *)
(* each later pass, is left to the environment.  The values of             *)
(* Math.random() are left to the environment as well.  The loop itself is  *)
(* modelled in both cases.                                                 *)
(***************************************************************************)
maxPasses == 100
push == 100

Sign(a) == IF a < 0 THEN 0 - 1 ELSE IF a > 0 THEN 1 ELSE 0

checkOverlap(pos1, size1, pos2, size2, margin) ==
  ~ \/ pos1.x + size1.width + margin < pos2.x
    \/ pos2.x + size2.width + margin < pos1.x
    \/ pos1.y + size1.height + margin < pos2.y
    \/ pos2.y + size2.height + margin < pos1.y

\* Twice the vector (dx, dy) between the centres of boxes i and j, so that
\* the halves of odd widths and heights stay exact.
CentreDelta(positions, sizes, i, j) ==
  [x |-> (2 * positions[j].x + sizes[j].width) - (2 * positions[i].x + sizes[i].width),
   y |-> (2 * positions[j].y + sizes[j].height) - (2 * positions[i].y + sizes[i].height)]

\* `dist < 1` for the doubled vector d2 = (2 * dx, 2 * dy).
CentresCoincide(d2) == d2.x * d2.x + d2.y * d2.y < 4

\* (dx * push, dy * push) after the direction is normalised or drawn; d2 is
\* twice the vector between the centres, `zero` tells whether Math.random()
\* returns 0 if it is called.  known = FALSE: the vector is not a pair of
\* integers.
PushVector(d2, zero) ==
  IF CentresCoincide(d2)
  THEN (IF zero THEN [known |-> TRUE, x |-> push, y |-> 0]
        ELSE [known |-> FALSE, x |-> 0, y |-> 0])
  ELSE IF d2.y = 0 THEN [known |-> TRUE, x |-> Sign(d2.x) * push, y |-> 0]
  ELSE IF d2.x = 0 THEN [known |-> TRUE, x |-> 0, y |-> Sign(d2.y) * push]
  ELSE [known |-> FALSE, x |-> 0, y |-> 0]

\* posA -= d * push; posB += d * push
pushApart(positions, i, j, v) ==
  [positions EXCEPT ![i] = [x |-> @.x - v.x, y |-> @.y - v.y],
                    ![j] = [x |-> @.x + v.x, y |-> @.y + v.y]]

\* The values that the environment contributes to a call: `zeros`, the
\* number of calls of Math.random() that return 0 before one returns another
\* value, and `clean`, the number of the first pass over positions not
\* carried in which checkOverlap holds for no pair (0: there is none).
ResolveChoices == [zeros : 0..MaxZeroDraws, clean : 0..maxPasses]

\* One pass over all pairs i < j, from pair (i, j) on; `zeros` as in
\* ResolveChoices, less the calls of Math.random() made so far.
RECURSIVE resolvePass(_, _, _, _, _, _, _)
resolvePass(positions, sizes, margin, i, j, hasOverlap, zeros) ==
  IF i > Len(positions)
  THEN [known |-> TRUE, positions |-> positions, hasOverlap |-> hasOverlap, zeros |-> zeros]
  ELSE IF j > Len(positions)
  THEN resolvePass(positions, sizes, margin, i + 1, i + 2, hasOverlap, zeros)
  ELSE IF ~checkOverlap(positions[i], sizes[i], positions[j], sizes[j], margin)
  THEN resolvePass(positions, sizes, margin, i, j + 1, hasOverlap, zeros)
  ELSE IF ~PushVector(CentreDelta(positions, sizes, i, j), zeros > 0).known
  THEN [known |-> FALSE, positions |-> <<>>, hasOverlap |-> TRUE, zeros |-> 0]
  ELSE resolvePass(pushApart(positions, i, j,
                             PushVector(CentreDelta(positions, sizes, i, j), zeros > 0)),
                   sizes, margin, i, j + 1, TRUE,
                   IF CentresCoincide(CentreDelta(positions, sizes, i, j))
                   THEN zeros - 1 ELSE zeros)

\* The pass number `iter + 1` that follows the pass `pass`: over positions
\* not carried, a pass pushes some pair unless `clean` names it.
nextPass(pass, sizes, margin, number, clean) ==
  IF pass.known
  THEN resolvePass(pass.positions, sizes, margin, 1, 2, FALSE, pass.zeros)
  ELSE [known |-> FALSE, positions |-> <<>>, hasOverlap |-> number # clean, zeros |-> 0]

\* A loop that stops after its first pass whatever the pass found.
StopsAfterPass_Always(hasOverlap) == TRUE

\* `if (!hasOverlap) break`
StopsAfterPass(hasOverlap) == ~hasOverlap

\* `for (let iter = 0; iter < 100; iter++)`: `history` holds the value of
\* hasOverlap at the end of each pass made so far, `pass` is the result of
\* the pass just made.
RECURSIVE resolveLoop(_, _, _, _, _)
resolveLoop(pass, sizes, margin, history, clean) ==
  IF StopsAfterPass(pass.hasOverlap) \/ Len(history) + 1 >= maxPasses
  THEN [known |-> pass.known, positions |-> pass.positions,
        history |-> Append(history, pass.hasOverlap)]
  ELSE resolveLoop(nextPass(pass, sizes, margin, Len(history) + 2, clean),
                   sizes, margin, Append(history, pass.hasOverlap), clean)

\* The positions that resolveOverlaps leaves in the Map, and the passes it
\* made.
resolveOverlaps(positions, sizes, margin, choice) ==
  resolveLoop(resolvePass(positions, sizes, margin, 1, 2, FALSE, choice.zeros),
              sizes, margin, <<>>, choice.clean)

\* Boxes of the width of a class node on one row; two boxes of a list may
\* lie at the same place.
ResolveBoxes ==
  { [x |-> x, y |-> 0, width |-> NODE_WIDTH, height |-> 128] : x \in {0, 100, 600} }

\* Boxes of the width of a class node in one column, at different heights.
ResolveColumnBoxes ==
  { [x |-> 0, y |-> y, width |-> NODE_WIDTH, height |-> 128] : y \in {0, 100, 600} }

ResolveColumnLists ==
  { l \in SeqsUpTo(ResolveColumnBoxes, MaxResolveBoxes) :
      /\ Len(l) >= 2
      /\ \A i, j \in 1..Len(l) : i # j => l[i].y # l[j].y }

\* Two lists with a very wide box, which 100 passes do not separate.
ResolveWideLists ==
  { << [x |-> 0, y |-> 0, width |-> 30000, height |-> 128],
       [x |-> 100, y |-> 0, width |-> 30000, height |-> 128] >>,
    << [x |-> 0, y |-> 0, width |-> 30000, height |-> 128],
       [x |-> 0, y |-> 0, width |-> NODE_WIDTH, height |-> 128],
       [x |-> 600, y |-> 0, width |-> NODE_WIDTH, height |-> 128] >> }

\* Lists with boxes whose centres differ along both axes, one with boxes of
\* odd size.
ResolveDiagonalLists ==
  { << [x |-> 0, y |-> 0, width |-> NODE_WIDTH, height |-> 128],
       [x |-> 100, y |-> 100, width |-> NODE_WIDTH, height |-> 128] >>,
    << [x |-> 0, y |-> 0, width |-> NODE_WIDTH, height |-> 128],
       [x |-> 600, y |-> 0, width |-> NODE_WIDTH, height |-> 128],
       [x |-> 500, y |-> 100, width |-> NODE_WIDTH, height |-> 128] >>,
    << [x |-> 0, y |-> 0, width |-> 301, height |-> 129],
       [x |-> 0, y |-> 0, width |-> NODE_WIDTH, height |-> 128] >> }

ResolveMargins == {60, 180}

\* The arguments of the call are kept in graphNodes (boxes) and depth
\* (margin).
InitResolve ==
  /\ graphNodes \in SeqsUpTo(ResolveBoxes, MaxResolveBoxes) \cup ResolveColumnLists
                     \cup ResolveWideLists \cup ResolveDiagonalLists
  /\ depth \in ResolveMargins
  /\ graphLinks = <<>>
  /\ selectedNodeIds = <<>>
  /\ call = "none"
  /\ ret = {}
  /\ CompIdle
  /\ StoreIdle
  /\ ProcIdle
  /\ TabsIdle

BoxPositions(boxes) == [i \in 1..Len(boxes) |-> [x |-> boxes[i].x, y |-> boxes[i].y]]

BoxSizes(boxes) ==
  [i \in 1..Len(boxes) |-> [width |-> boxes[i].width, height |-> boxes[i].height]]

\* resolveOverlaps(positions, sizes, margin) is called and returns.
CallResolveOverlaps ==
  /\ call = "none"
  /\ call' = "resolveOverlaps"
  /\ \E choice \in ResolveChoices :
       ret' = resolveOverlaps(BoxPositions(graphNodes), BoxSizes(graphNodes), depth, choice)
  /\ UNCHANGED <<graphNodes, graphLinks, selectedNodeIds, depth>>
  /\ UNCHANGED compVars
  /\ UNCHANGED storeVars
  /\ UNCHANGED procVars
  /\ UNCHANGED tabVars

NextResolve == CallResolveOverlaps

SpecResolve == InitResolve /\ [][NextResolve]_vars

(***************************************************************************)
(* SpecTabs: the file viewer of the upload view.  Paths and tab ids are    *)
(* token sequences, null is the empty sequence.  An uploaded file is       *)
(* [fileName, fileContent]; the tree of a file list is a root folder with  *)
(* one file node per file, whose relPath is the file name.                 *)
(***************************************************************************)
hasUploadedFiles == Len(uploadedFiles) > 0 \/ Len(uploadedDdlFiles) > 0

TreeNode(type, relPath, fileContent, children) ==
  [type |-> type, relPath |-> relPath, fileContent |-> fileContent, children |-> children]

\* The tree that the view computes from a file list.
buildUploadTreeFromUploadedFiles(files) ==
  TreeNode("folder", <<>>, "",
           [i \in 1..Len(files) |->
              TreeNode("file", files[i].fileName, files[i].fileContent, <<>>)])

NotFound == [type |-> "none"]

\* findFileNode of handleTreeSelect over the children from index i on; the
\* trees of the model are one level deep.
RECURSIVE findFileNodeIn(_, _, _)
findFileNodeIn(children, i, targetRelPath) ==
  IF i > Len(children) THEN NotFound
  ELSE IF children[i].relPath = targetRelPath /\ children[i].type = "file"
  THEN children[i]
  ELSE findFileNodeIn(children, i + 1, targetRelPath)

findFileNode(node, targetRelPath) ==
  IF node.relPath = targetRelPath /\ node.type = "file" THEN node
  ELSE findFileNodeIn(node.children, 1, targetRelPath)

\* findFileNode(uploadedFileTree, relPath) || findFileNode(uploadedDdlTree, relPath)
fileNodeOf(files, ddlFiles, relPath) ==
  IF findFileNode(buildUploadTreeFromUploadedFiles(files), relPath) # NotFound
  THEN findFileNode(buildUploadTreeFromUploadedFiles(files), relPath)
  ELSE findFileNode(buildUploadTreeFromUploadedFiles(ddlFiles), relPath)

\* `file-${fileName}`
TabIdOf(fileName) == <<"file-">> \o fileName

TabIndex(tabs, tabId) ==
  IF \E i \in 1..Len(tabs) : tabs[i].id = tabId
  THEN (CHOOSE i \in 1..Len(tabs) :
          tabs[i].id = tabId /\ \A j \in 1..(i - 1) : tabs[j].id # tabId) - 1
  ELSE 0 - 1

\* openTabs.value.splice(index, 1), index counted from 0
Splice(tabs, index) ==
  [i \in 1..(Len(tabs) - 1) |-> IF i <= index THEN tabs[i] ELSE tabs[i + 1]]

\* A closeTab that never moves the active tab.
activeAfterClose_Keep(tabs, index, active, tabId) == active

\* closeTab after the splice: `tabs` is the list without the closed tab.
activeAfterClose(tabs, index, active, tabId) ==
  IF active # tabId THEN active
  ELSE IF Len(tabs) > 0
  THEN tabs[(IF index - 1 > 0 THEN index - 1 ELSE 0) + 1].id
  ELSE <<>>

SampleFiles ==
  << [fileName |-> <<"a.sql">>, fileContent |-> "select 1"],
     [fileName |-> <<"b.java">>, fileContent |-> "class B {}"],
     [fileName |-> <<"e.txt">>, fileContent |-> ""] >>

SampleDdlFiles ==
  << [fileName |-> <<"a.sql">>, fileContent |-> "create table a"],
     [fileName |-> <<"d.sql">>, fileContent |-> "create table d"] >>

\* The paths that a click in the trees can emit, and one path of no node.
SelectablePaths == { <<"a.sql">>, <<"b.java">>, <<"e.txt">>, <<"d.sql">>, <<"gone.sql">> }

InitTabs ==
  /\ graphLinks = <<>>
  /\ PureIdle
  /\ CompIdle
  /\ StoreIdle
  /\ isProcessing = FALSE
  /\ currentStep = "upload done"
  /\ uploadedFiles = SampleFiles
  /\ uploadedDdlFiles = SampleDdlFiles
  /\ running = [op \in AsyncOps |-> 0]
  /\ showModal = FALSE
  /\ pendingFiles = <<>>
  /\ TabsIdle

\* handleTreeSelect(relPath): a click in one of the trees, which are shown
\* while files are uploaded.
HandleTreeSelect ==
  \E relPath \in SelectablePaths :
    /\ hasUploadedFiles
    /\ selectedRelPath' = relPath
    /\ LET fileNode == fileNodeOf(uploadedFiles, uploadedDdlFiles, relPath)
       IN IF fileNode = NotFound
          THEN UNCHANGED <<openTabs, activeTabId>>
          ELSE IF fileNode.fileContent = ""
          THEN UNCHANGED <<openTabs, activeTabId>>
          ELSE IF \E i \in 1..Len(openTabs) : openTabs[i].id = TabIdOf(fileNode.relPath)
          THEN /\ activeTabId' = TabIdOf(fileNode.relPath)
               /\ UNCHANGED openTabs
          ELSE /\ openTabs' = Append(openTabs,
                                     [id |-> TabIdOf(fileNode.relPath),
                                      fileName |-> fileNode.relPath,
                                      content |-> fileNode.fileContent])
               /\ activeTabId' = TabIdOf(fileNode.relPath)
    /\ UNCHANGED pureVars
    /\ UNCHANGED compVars
    /\ UNCHANGED storeVars
    /\ UNCHANGED procVars

\* closeTab(tabId): the close button of an open tab, or an id of no tab.
CloseTab ==
  \E tabId \in {TabIdOf(p) : p \in SelectablePaths} :
    /\ IF TabIndex(openTabs, tabId) = 0 - 1
       THEN UNCHANGED <<openTabs, activeTabId>>
       ELSE /\ openTabs' = Splice(openTabs, TabIndex(openTabs, tabId))
            /\ activeTabId' = activeAfterClose(Splice(openTabs, TabIndex(openTabs, tabId)),
                                               TabIndex(openTabs, tabId), activeTabId, tabId)
    /\ UNCHANGED selectedRelPath
    /\ UNCHANGED pureVars
    /\ UNCHANGED compVars
    /\ UNCHANGED storeVars
    /\ UNCHANGED procVars

\* activateTab(tab.id): a click on the header of an open tab.
ActivateTab ==
  \E i \in 1..Len(openTabs) :
    /\ activeTabId' = openTabs[i].id
    /\ UNCHANGED <<openTabs, selectedRelPath>>
    /\ UNCHANGED pureVars
    /\ UNCHANGED compVars
    /\ UNCHANGED storeVars
    /\ UNCHANGED procVars

NextTabs == HandleTreeSelect \/ CloseTab \/ ActivateTab \/ HandleNewSession

SpecTabs == InitTabs /\ [][NextTabs]_vars

(***************************************************************************)
(* SpecProcessing: the four asynchronous operations of the project store   *)
(* (uploadFiles, parseFiles, runUnderstanding, runConvert) started from    *)
(* the upload view and the convert view.  running[op] counts the calls of  *)
(* op that are suspended in their await.  The texts of currentStep are     *)
(* rendered in English.  A picked File is [name].                          *)
(***************************************************************************)
InFlight(op) == running[op] > 0

StepStarted(op) ==
  CASE op = "uploadFiles" -> "uploading files"
    [] op = "parseFiles" -> "parsing"
    [] op = "runUnderstanding" -> "understanding in progress"
    [] op = "runConvert" -> "convert in progress"

StepDone(op) ==
  CASE op = "uploadFiles" -> "upload done"
    [] op = "parseFiles" -> "parsing done"

StepFailed(op) ==
  CASE op = "uploadFiles" -> "upload failed"
    [] op = "parseFiles" -> "parsing failed"
    [] op = "runUnderstanding" -> "understanding failed"
    [] op = "runConvert" -> "convert failed"

\* The synchronous head of a store operation: isProcessing.value = true,
\* currentStep.value = ..., then the call suspends in its await.
StartOp(op) ==
  /\ isProcessing' = TRUE
  /\ currentStep' = StepStarted(op)
  /\ running' = [running EXCEPT ![op] = @ + 1]

\* finally { isProcessing.value = false }
FinallyOp(op) ==
  /\ isProcessing' = FALSE
  /\ running' = [running EXCEPT ![op] = @ - 1]

PickedFiles == { [name |-> <<"a.sql">>], [name |-> <<"b.java">>] }

\* uniqueFilesByRelPath([...pendingFiles, ...files]): one file per path.
MergePicked(pending, f) ==
  IF \E i \in 1..Len(pending) : pending[i].name = f.name THEN pending
  ELSE Append(pending, f)

\* The answers of the upload service: result.files, result.ddlFiles.
UploadResults ==
  { [files |-> SampleFiles, ddlFiles |-> <<>>],
    [files |-> <<>>, ddlFiles |-> SampleDdlFiles],
    [files |-> SampleFiles, ddlFiles |-> SampleDdlFiles] }

\* The stream events of runUnderstanding: type, and the lists of event.graph
\* (`graph.Nodes || []`, `graph.Relationships || []`; an event without graph
\* has both empty, for which updateGraphData changes nothing).
UnderstandingEvents ==
  { [type |-> "message", Nodes |-> ns, Relationships |-> rs] :
      ns \in { <<>>, << [Node_ID |-> "1", Labels |-> <<"Class">>,
                         Properties |-> [name |-> "Order"]] >> },
      rs \in { <<>>, << [Relationship_ID |-> "r1", Start_Node_ID |-> "1",
                         End_Node_ID |-> "2", Type |-> "IMPLEMENTS",
                         Properties |-> [label |-> "x"]] >> } }
  \cup { [type |-> t, Nodes |-> <<>>, Relationships |-> <<>>] : t \in {"complete", "error"} }

InitProcessing ==
  /\ graphLinks = <<>>
  /\ PureIdle
  /\ CompIdle
  /\ StoreIdle
  /\ ProcIdle
  /\ TabsIdle

\* handleOpenModal: a click on the drop zone, shown while nothing is uploaded.
HandleOpenModal ==
  /\ ~hasUploadedFiles
  /\ ~showModal
  /\ pendingFiles' = <<>>
  /\ showModal' = TRUE
  /\ UNCHANGED <<isProcessing, currentStep, uploadedFiles, uploadedDdlFiles, running>>
  /\ UNCHANGED pureVars
  /\ UNCHANGED compVars
  /\ UNCHANGED storeVars
  /\ UNCHANGED tabVars

\* handleFilesDrop(files): files dropped on the drop zone.
HandleFilesDrop ==
  \E f \in PickedFiles :
    /\ ~hasUploadedFiles
    /\ ~showModal
    /\ pendingFiles' = <<f>>
    /\ showModal' = TRUE
    /\ UNCHANGED <<isProcessing, currentStep, uploadedFiles, uploadedDdlFiles, running>>
    /\ UNCHANGED pureVars
    /\ UNCHANGED compVars
    /\ UNCHANGED storeVars
    /\ UNCHANGED tabVars

\* handleAddFiles(files): files added in the modal.
HandleAddFiles ==
  \E f \in PickedFiles :
    /\ showModal
    /\ pendingFiles' = MergePicked(pendingFiles, f)
    /\ UNCHANGED <<isProcessing, currentStep, uploadedFiles, uploadedDdlFiles, running,
                   showModal>>
    /\ UNCHANGED pureVars
    /\ UNCHANGED compVars
    /\ UNCHANGED storeVars
    /\ UNCHANGED tabVars

\* handleFilesUpdated(updatedFiles): the modal's list after a removal.
HandleFilesUpdated ==
  \E k \in 1..Len(pendingFiles) :
    /\ showModal
    /\ pendingFiles' = [i \in 1..(Len(pendingFiles) - 1) |->
                          IF i < k THEN pendingFiles[i] ELSE pendingFiles[i + 1]]
    /\ UNCHANGED <<isProcessing, currentStep, uploadedFiles, uploadedDdlFiles, running,
                   showModal>>
    /\ UNCHANGED pureVars
    /\ UNCHANGED compVars
    /\ UNCHANGED storeVars
    /\ UNCHANGED tabVars

\* @cancel="showModal = false"
CancelModal ==
  /\ showModal
  /\ showModal' = FALSE
  /\ UNCHANGED <<isProcessing, currentStep, uploadedFiles, uploadedDdlFiles, running,
                 pendingFiles>>
  /\ UNCHANGED pureVars
  /\ UNCHANGED compVars
  /\ UNCHANGED storeVars
  /\ UNCHANGED tabVars

\* handleUploadConfirm up to the await of projectStore.uploadFiles.  The
\* modal's upload button is enabled when the modal has files; isProcessing
\* is not consulted.
HandleUploadConfirm ==
  /\ showModal
  /\ Len(pendingFiles) > 0
  /\ running["uploadFiles"] < MaxInFlight
  /\ showModal' = FALSE
  /\ IF Len(pendingFiles) = 0
     THEN UNCHANGED <<isProcessing, currentStep, running>>
     ELSE StartOp("uploadFiles")
  /\ UNCHANGED <<uploadedFiles, uploadedDdlFiles, pendingFiles>>
  /\ UNCHANGED pureVars
  /\ UNCHANGED compVars
  /\ UNCHANGED storeVars
  /\ UNCHANGED tabVars

\* uploadFiles after antlrApi.uploadFiles has answered.
UploadFilesSettles ==
  /\ InFlight("uploadFiles")
  /\ \/ \E result \in UploadResults :
          /\ uploadedFiles' = result.files
          /\ uploadedDdlFiles' = result.ddlFiles
          /\ currentStep' = StepDone("uploadFiles")
     \/ /\ currentStep' = StepFailed("uploadFiles")
        /\ UNCHANGED <<uploadedFiles, uploadedDdlFiles>>
  /\ FinallyOp("uploadFiles")
  /\ UNCHANGED <<showModal, pendingFiles>>
  /\ UNCHANGED pureVars
  /\ UNCHANGED compVars
  /\ UNCHANGED storeVars
  /\ UNCHANGED tabVars

\* handleParse up to the await of antlrApi.parse; the button is disabled
\* while isProcessing or when nothing is uploaded.
HandleParse ==
  /\ ~showModal
  /\ hasUploadedFiles
  /\ ~isProcessing
  /\ running["parseFiles"] < MaxInFlight
  /\ StartOp("parseFiles")
  /\ UNCHANGED <<uploadedFiles, uploadedDdlFiles, showModal, pendingFiles>>
  /\ UNCHANGED pureVars
  /\ UNCHANGED compVars
  /\ UNCHANGED storeVars
  /\ UNCHANGED tabVars

\* parseFiles after antlrApi.parse has answered or failed.
ParseFilesSettles ==
  /\ InFlight("parseFiles")
  /\ \E step \in {StepDone("parseFiles"), StepFailed("parseFiles")} : currentStep' = step
  /\ FinallyOp("parseFiles")
  /\ UNCHANGED <<uploadedFiles, uploadedDdlFiles, showModal, pendingFiles>>
  /\ UNCHANGED pureVars
  /\ UNCHANGED compVars
  /\ UNCHANGED storeVars
  /\ UNCHANGED tabVars

\* handleUnderstanding up to the await of backendApi.cypherQuery, with the
\* clearGraphData() of runUnderstanding; the button is shown with the
\* uploaded trees and disabled while isProcessing.
HandleUnderstanding ==
  /\ ~showModal
  /\ hasUploadedFiles
  /\ ~isProcessing
  /\ running["runUnderstanding"] < MaxInFlight
  /\ StartOp("runUnderstanding")
  /\ nodeMap' = <<>>
  /\ linkMap' = <<>>
  /\ delivered' = [nodes |-> <<>>, links |-> <<>>, replaced |-> FALSE]
  /\ UNCHANGED <<uploadedFiles, uploadedDdlFiles, showModal, pendingFiles>>
  /\ UNCHANGED pureVars
  /\ UNCHANGED compVars
  /\ UNCHANGED tabVars

\* The event callback of runUnderstanding.
UnderstandingEvent ==
  \E event \in UnderstandingEvents :
    /\ InFlight("runUnderstanding")
    /\ nodeMap' = setNodesFrom(nodeMap, event.Nodes, 1)
    /\ linkMap' = setLinksFrom(linkMap, event.Relationships, 1)
    /\ delivered' =
         [nodes |-> LatestAfter(delivered.nodes, KeyedNodes(event.Nodes)),
          links |-> LatestAfter(delivered.links, KeyedRels(event.Relationships)),
          replaced |-> \/ delivered.replaced
                       \/ ReplacesIn(delivered.nodes, KeyedNodes(event.Nodes))
                       \/ ReplacesIn(delivered.links, KeyedRels(event.Relationships))]
    /\ currentStep' = IF event.type = "complete" THEN "understanding done"
                      ELSE IF event.type = "error" THEN "understanding error"
                      ELSE currentStep
    /\ UNCHANGED <<isProcessing, uploadedFiles, uploadedDdlFiles, running,
                   showModal, pendingFiles>>
    /\ UNCHANGED pureVars
    /\ UNCHANGED compVars
    /\ UNCHANGED tabVars

\* runUnderstanding after the stream has ended or failed.
RunUnderstandingSettles ==
  /\ InFlight("runUnderstanding")
  /\ \E step \in {currentStep, StepFailed("runUnderstanding")} : currentStep' = step
  /\ FinallyOp("runUnderstanding")
  /\ UNCHANGED <<uploadedFiles, uploadedDdlFiles, showModal, pendingFiles>>
  /\ UNCHANGED pureVars
  /\ UNCHANGED compVars
  /\ UNCHANGED storeVars
  /\ UNCHANGED tabVars

\* handleRunConvert of the convert view up to the await of
\* backendApi.convert; the button is disabled while isProcessing.
HandleRunConvert ==
  /\ ~showModal
  /\ ~isProcessing
  /\ running["runConvert"] < MaxInFlight
  /\ StartOp("runConvert")
  /\ UNCHANGED <<uploadedFiles, uploadedDdlFiles, showModal, pendingFiles>>
  /\ UNCHANGED pureVars
  /\ UNCHANGED compVars
  /\ UNCHANGED storeVars
  /\ UNCHANGED tabVars

\* handleConvertEvent: the event callback of runConvert.
ConvertEvent ==
  \E type \in {"message", "complete", "error"} :
    /\ InFlight("runConvert")
    /\ currentStep' = IF type = "complete" THEN "convert done"
                      ELSE IF type = "error" THEN "convert error"
                      ELSE currentStep
    /\ UNCHANGED <<isProcessing, uploadedFiles, uploadedDdlFiles, running,
                   showModal, pendingFiles>>
    /\ UNCHANGED pureVars
    /\ UNCHANGED compVars
    /\ UNCHANGED storeVars
    /\ UNCHANGED tabVars

\* handleDeleteAll of the settings dialog: deleteAllData up to the await of
\* backendApi.deleteAll.
HandleDeleteAll ==
  /\ running["deleteAllData"] < MaxInFlight
  /\ running' = [running EXCEPT !["deleteAllData"] = @ + 1]
  /\ UNCHANGED <<isProcessing, currentStep, uploadedFiles, uploadedDdlFiles,
                 showModal, pendingFiles>>
  /\ UNCHANGED pureVars
  /\ UNCHANGED compVars
  /\ UNCHANGED storeVars
  /\ UNCHANGED tabVars

\* deleteAllData after backendApi.deleteAll has answered (reset()) or failed.
DeleteAllDataSettles ==
  /\ InFlight("deleteAllData")
  /\ running' = [running EXCEPT !["deleteAllData"] = @ - 1]
  /\ \/ reset
     \/ UNCHANGED <<isProcessing, currentStep, uploadedFiles, uploadedDdlFiles,
                    nodeMap, linkMap, delivered>>
  /\ UNCHANGED <<showModal, pendingFiles>>
  /\ UNCHANGED pureVars
  /\ UNCHANGED compVars
  /\ UNCHANGED tabVars

\* runConvert after the stream has ended or failed.
RunConvertSettles ==
  /\ InFlight("runConvert")
  /\ \E step \in {currentStep, StepFailed("runConvert")} : currentStep' = step
  /\ FinallyOp("runConvert")
  /\ UNCHANGED <<uploadedFiles, uploadedDdlFiles, showModal, pendingFiles>>
  /\ UNCHANGED pureVars
  /\ UNCHANGED compVars
  /\ UNCHANGED storeVars
  /\ UNCHANGED tabVars

NextProcessing ==
  \/ HandleOpenModal
  \/ HandleFilesDrop
  \/ HandleAddFiles
  \/ HandleFilesUpdated
  \/ CancelModal
  \/ HandleUploadConfirm
  \/ UploadFilesSettles
  \/ HandleParse
  \/ ParseFilesSettles
  \/ HandleUnderstanding
  \/ UnderstandingEvent
  \/ RunUnderstandingSettles
  \/ HandleRunConvert
  \/ ConvertEvent
  \/ RunConvertSettles
  \/ HandleNewSession
  \/ HandleDeleteAll
  \/ DeleteAllDataSettles

SpecProcessing == InitProcessing /\ [][NextProcessing]_vars

(***************************************************************************)
(* Claims about getNodesWithinDepth (checked under SpecDepth).             *)
(***************************************************************************)
\* The relation types the claims call class relations, compared on the
\* upper-cased type as the code compares them.
ClaimedClassRelation(link) ==
  toUpperCase(link.type) \in
    {"EXTENDS", "IMPLEMENTS", "ASSOCIATION", "AGGREGATION", "COMPOSITION", "DEPENDENCY"}

\* One step of the undirected class-relation graph from the set S.
OneStep(S, links) ==
  S \cup {links[i].target : i \in {j \in 1..Len(links) :
                                     ClaimedClassRelation(links[j]) /\ links[j].source \in S}}
    \cup {links[i].source : i \in {j \in 1..Len(links) :
                                     ClaimedClassRelation(links[j]) /\ links[j].target \in S}}

\* The ids at shortest-path distance <= d from some id of S.
RECURSIVE WithinDistance(_, _, _)
WithinDistance(S, links, d) ==
  IF d <= 0 THEN S ELSE OneStep(WithinDistance(S, links, d - 1), links)

Called(f) == call = f

\* C4: for non-empty startIds and maxDepth > 0, getNodesWithinDepth returns
\* exactly the ids within shortest-path distance maxDepth of a start id in the
\* undirected graph of the class-relation links; other link types add nothing.
C4_BfsIsDistanceBall ==
  (Called("getNodesWithinDepth") /\ Len(selectedNodeIds) > 0 /\ depth > 0)
    => ret = WithinDistance(Range(selectedNodeIds), graphLinks, depth)

\* The scenario of C4: B extends A, C composes B, focal [B], depth 1; a
\* PARENT_OF link B -> D is present and adds nothing.
C4_Witness ==
  /\ Called("getNodesWithinDepth")
  /\ graphLinks = << Link("l1", idB, idA, "EXTENDS", FALSE),
                     Link("l2", idC, idB, "COMPOSITION", FALSE),
                     Link("l7", idB, idD, "PARENT_OF", FALSE) >>
  /\ selectedNodeIds = <<idB>>
  /\ depth = 1
  /\ ret = {idA, idB, idC}

\* C5: depth monotonicity: the result for depth d is a subset of the result
\* for depth d + 1, for every link list, start list and integer d.
C5_DepthMonotone ==
  Called("getNodesWithinDepth")
    => ret \subseteq getNodesWithinDepth(selectedNodeIds, graphLinks, depth + 1)

\* A call whose result grows strictly when the depth is raised from 1 to 2.
C5_Witness ==
  /\ Called("getNodesWithinDepth")
  /\ depth = 1
  /\ Len(selectedNodeIds) > 0
  /\ ret # Range(selectedNodeIds)
  /\ ret # getNodesWithinDepth(selectedNodeIds, graphLinks, depth + 1)

\* C6: depth-0 identity: with maxDepth <= 0 and a non-empty start list the
\* result is exactly the set of start ids, whether or not they occur in a link.
C6_DepthZeroIdentity ==
  (Called("getNodesWithinDepth") /\ Len(selectedNodeIds) > 0 /\ depth <= 0)
    => ret = Range(selectedNodeIds)

\* Depth 0, a start id with class-relation neighbours and one that occurs in
\* no link at all.
C6_Witness ==
  /\ Called("getNodesWithinDepth")
  /\ depth = 0
  /\ selectedNodeIds = <<idD, idA>>
  /\ graphLinks = << Link("l1", idB, idA, "EXTENDS", FALSE) >>
  /\ ret = {idD, idA}

\* C7: empty-start invariant: an empty start list gives the empty set for
\* every link list and every maxDepth.
C7_EmptyStartEmptyResult ==
  (Called("getNodesWithinDepth") /\ Len(selectedNodeIds) = 0) => ret = {}

\* An empty start list on a graph with class-relation links and depth 2.
C7_Witness ==
  /\ Called("getNodesWithinDepth")
  /\ selectedNodeIds = <<>>
  /\ depth = 2
  /\ \E i \in 1..Len(graphLinks) : isClassRelation(graphLinks[i])
  /\ ret = {}

(***************************************************************************)
(* Claims about the relationship normalizer and the projection.            *)
(***************************************************************************)
IsInheritance(link) ==
  toUpperCase(link.type) = "EXTENDS" \/ toUpperCase(link.type) = "IMPLEMENTS"

IsOwnership(link) ==
  toUpperCase(link.type) \in {"COMPOSITION", "AGGREGATION", "ASSOCIATION"}

IsDependency(link) == toUpperCase(link.type) = "DEPENDENCY"

\* The parents, by EXTENDS/IMPLEMENTS links, of the ids in S.
ParentsOf(S, links) ==
  {links[i].target : i \in {j \in 1..Len(links) :
                              IsInheritance(links[j]) /\ links[j].source \in S}}

RECURSIVE AncestorsUpTo(_, _, _)
AncestorsUpTo(S, links, n) ==
  IF n = 0 THEN ParentsOf(S, links)
  ELSE LET prev == AncestorsUpTo(S, links, n - 1)
       IN prev \cup ParentsOf(prev, links)

\* The transitive ancestors of id (a chain has at most Len(links) links).
TransitiveAncestors(id, links) == AncestorsUpTo({id}, links, Len(links))

AcyclicInheritance(links) ==
  \A id \in LinkEndpoints(links) : id \notin TransitiveAncestors(id, links)

\* The claimed condition for a link to be removed by the noise filter.
ClaimedNoise(link, links) ==
  /\ IsDependency(link)
  /\ \/ link.is_value_object = TRUE
     \/ \E a \in TransitiveAncestors(link.source, links) :
          \E j \in 1..Len(links) :
            IsOwnership(links[j]) /\ links[j].source = a /\ links[j].target = link.target

IsClassId(nodeList, id) ==
  \E i \in 1..Len(nodeList) : nodeList[i].id = id /\ isClassNode(nodeList[i])

\* C8: with acyclic inheritance, filterNoiseDependencies removes a DEPENDENCY
\* link S->T iff it is a value-object dependency or a transitive ancestor of S
\* has an ownership link to T; and when class X extends class P and P composes
\* class Y, no DEPENDENCY X->Y is among the relationships that
\* buildClassDiagramData returns.
C8_NoiseDependencyElimination ==
  /\ (Called("filterNoiseDependencies") /\ AcyclicInheritance(graphLinks))
       => ret = Returned(SelectSeq(graphLinks, LAMBDA l : ~ClaimedNoise(l, graphLinks)))
  /\ (Called("buildClassDiagramData") /\ AcyclicInheritance(graphLinks))
       => \A i, j \in 1..Len(graphLinks) :
            ( /\ toUpperCase(graphLinks[i].type) = "EXTENDS"
              /\ toUpperCase(graphLinks[j].type) = "COMPOSITION"
              /\ graphLinks[j].source = graphLinks[i].target
              /\ IsClassId(graphNodes, graphLinks[i].source)
              /\ IsClassId(graphNodes, graphLinks[i].target)
              /\ IsClassId(graphNodes, graphLinks[j].target) )
            => ~\E k \in 1..Len(ret.relationships) :
                  /\ ret.relationships[k].type = "DEPENDENCY"
                  /\ ret.relationships[k].source = graphLinks[i].source
                  /\ ret.relationships[k].target = graphLinks[j].target

\* X extends P, P implements Q, Q associates Y, X depends on Y: the
\* dependency is removed through the grandparent, the other links are kept.
C8_Witness ==
  /\ Called("filterNoiseDependencies")
  /\ graphLinks = << Link("n1", idA, idB, "EXTENDS", FALSE),
                     Link("n2", idB, idC, "implements", FALSE),
                     Link("n4", idC, idD, "ASSOCIATION", FALSE),
                     Link("n5", idA, idD, "DEPENDENCY", FALSE) >>
  /\ ret = Returned(SubSeq(graphLinks, 1, 3))

SamePair(l, s, t) == l.source = s /\ l.target = t

MaxStrength(links, s, t) ==
  CHOOSE m \in 1..3 :
    /\ \E i \in 1..Len(links) :
         IsOwnership(links[i]) /\ SamePair(links[i], s, t)
           /\ RELATION_STRENGTH(toUpperCase(links[i].type)) = m
    /\ \A i \in 1..Len(links) :
         (IsOwnership(links[i]) /\ SamePair(links[i], s, t))
           => RELATION_STRENGTH(toUpperCase(links[i].type)) <= m

\* C9: strength ordering: for each ordered pair with at least one ownership
\* link in the input, dedupeRelationships keeps exactly one ownership link of
\* that pair, and its type has the highest strength present for the pair.
C9_StrongestOwnershipKept ==
  Called("dedupeRelationships") =>
    \A i \in 1..Len(graphLinks) :
      IsOwnership(graphLinks[i]) =>
        LET s == graphLinks[i].source
            t == graphLinks[i].target
            keptIdx == {k \in 1..Len(ret) : IsOwnership(ret[k]) /\ SamePair(ret[k], s, t)}
        IN /\ Cardinality(keptIdx) = 1
           /\ \A k \in keptIdx :
                RELATION_STRENGTH(toUpperCase(ret[k].type)) = MaxStrength(graphLinks, s, t)

\* The first position in links of a link with the pair and upper-cased type of l.
FirstOccurrence(links, l) ==
  CHOOSE i \in 1..Len(links) :
    /\ SamePair(links[i], l.source, l.target)
    /\ toUpperCase(links[i].type) = toUpperCase(l.type)
    /\ \A j \in 1..(i - 1) :
         ~(SamePair(links[j], l.source, l.target)
             /\ toUpperCase(links[j].type) = toUpperCase(l.type))

\* C10: for EXTENDS/IMPLEMENTS/DEPENDENCY links the output holds exactly one
\* link per (source, target, upper-cased type) triple of the input, the first
\* occurrence; and links of different types between one ordered pair all
\* survive: an EXTENDS, a DEPENDENCY and a COMPOSITION of one pair give three
\* output links.
C10_OnePerTripleAllTypesSurvive ==
  Called("dedupeRelationships") =>
    /\ \A i \in 1..Len(graphLinks) :
         (IsInheritance(graphLinks[i]) \/ IsDependency(graphLinks[i])) =>
           LET l == graphLinks[i]
               keptIdx == {k \in 1..Len(ret) :
                             /\ SamePair(ret[k], l.source, l.target)
                             /\ toUpperCase(ret[k].type) = toUpperCase(l.type)}
           IN /\ Cardinality(keptIdx) = 1
              /\ \A k \in keptIdx : ret[k] = graphLinks[FirstOccurrence(graphLinks, l)]
    /\ \A s, t \in LinkEndpoints(graphLinks) :
         ( /\ Len(graphLinks) = 3
           /\ \A i \in 1..3 : SamePair(graphLinks[i], s, t)
           /\ {toUpperCase(graphLinks[i].type) : i \in 1..3}
                = {"EXTENDS", "DEPENDENCY", "COMPOSITION"} )
         => Len(ret) = 3

UniqueNodeIds(nodeList) ==
  \A i, j \in 1..Len(nodeList) : nodeList[i].id = nodeList[j].id => i = j

\* C3: projection soundness: with unique node ids, every relationship that
\* buildClassDiagramData returns has its source and its target among the ids
\* of the returned classes.
C3_ProjectionSound ==
  (Called("buildClassDiagramData") /\ UniqueNodeIds(graphNodes)) =>
    \A k \in 1..Len(ret.relationships) :
      /\ \E c \in 1..Len(ret.classes) : ret.classes[c].id = ret.relationships[k].source
      /\ \E c \in 1..Len(ret.classes) : ret.classes[c].id = ret.relationships[k].target

\* A build that returns a relationship and drops a class relation of the
\* input whose ends are both inside the selected depth, one end being a node
\* that is not a class or has no name.
C3_Witness ==
  /\ Called("buildClassDiagramData")
  /\ UniqueNodeIds(graphNodes)
  /\ Len(ret.relationships) = 1
  /\ Len(ret.classes) = 2
  /\ depth = 2
  /\ Cardinality({i \in 1..Len(graphLinks) : isClassRelation(graphLinks[i])}) = 3
  /\ \E i \in 1..Len(graphNodes) : convertToUmlClass(graphNodes[i], <<>>) = Null

(***************************************************************************)
(* Claims about the rebuild tokens of the component (checked under Spec).  *)
(***************************************************************************)
\* C1: a rebuild that completes writes the displayed nodes/edges only if its
\* token is still the most recently issued one: a step in which an
\* in-flight rebuild with an older token completes leaves nodes and edges
\* as they were.
C1_StaleRebuildNeverWrites ==
  [][ (\E r \in inflight : r \notin inflight' /\ r.id # layoutRunId)
        => (nodes' = nodes /\ edges' = edges) ]_vars

IdsOf(s) == [i \in 1..Len(s) |-> s[i].id]

\* C2: once every in-flight rebuild has completed, the displayed nodes and
\* edges are those computed by the most recently issued rebuild.
C2_LastIssuedWins ==
  inflight = {} =>
    /\ IdsOf(nodes) = IdsOf(issued.data.classes)
    /\ IdsOf(edges) = IdsOf(issued.data.relationships)

(***************************************************************************)
(* Claims about the normalizer applied twice (checked under SpecNormalize).*)
(***************************************************************************)
\* C11: noise filtering idempotence: with F(L) = dedupeRelationships(
\* filterNoiseDependencies(L, buildInheritanceMap(L), buildOwnershipMap(L))),
\* for every class-relation link list L with acyclic inheritance F(F(L)) holds
\* exactly the links of F(L), in the same order.
C11_NormalizeIdempotent ==
  (Called("normalizeTwice") /\ AcyclicInheritance(graphLinks))
    => (~ret.once.thrown /\ ret.twice = ret.once)

\* A list from which the first application removes a noise dependency and a
\* weaker ownership link, leaving ownership links of two pairs.
C11_Witness ==
  /\ Called("normalizeTwice")
  /\ AcyclicInheritance(graphLinks)
  /\ ~ret.once.thrown
  /\ Len(ret.once.value) < Len(graphLinks)
  /\ Cardinality({k \in 1..Len(ret.once.value) : IsOwnership(ret.once.value[k])}) = 2
  /\ ret.twice = ret.once

(***************************************************************************)
(* Claims about the UML classes of the projection (SpecProjection).        *)
(***************************************************************************)
\* A class node with no member at all: no embedded field or method, and no
\* PARENT_OF link from it to a field or method node.
HasNoMembers(n, nodeList, links) ==
  /\ n.fields = <<>>
  /\ n.methods = <<>>
  /\ ~\E j \in 1..Len(links), k \in 1..Len(nodeList) :
        /\ links[j].type = "PARENT_OF"
        /\ links[j].source = n.id
        /\ links[j].target = nodeList[k].id
        /\ (isFieldNode(nodeList[k]) \/ isMethodNode(nodeList[k]))

\* C12: no dangling names: every UmlClass that buildClassDiagramData returns
\* comes from an input node that isClassNode accepts and whose class name
\* (class_name, else name) is non-empty, so class nodes without a name are
\* dropped; and a selected class node with a name and no fields and methods
\* is still emitted, with empty lists.
C12_NoDanglingNames ==
  Called("buildClassDiagramData") =>
    /\ \A c \in 1..Len(ret.classes) :
         /\ ret.classes[c].className # ""
         /\ \E i \in 1..Len(graphNodes) :
              /\ graphNodes[i].id = ret.classes[c].id
              /\ isClassNode(graphNodes[i])
              /\ ret.classes[c].className =
                    (IF graphNodes[i].class_name # "" THEN graphNodes[i].class_name
                     ELSE graphNodes[i].name)
    /\ \A i \in 1..Len(graphNodes) :
         ( /\ isClassNode(graphNodes[i])
           /\ (graphNodes[i].class_name # "" \/ graphNodes[i].name # "")
           /\ graphNodes[i].id \in Range(selectedNodeIds)
           /\ HasNoMembers(graphNodes[i], graphNodes, graphLinks) )
         => \E c \in 1..Len(ret.classes) :
              /\ ret.classes[c].id = graphNodes[i].id
              /\ ret.classes[c].fields = <<>>
              /\ ret.classes[c].methods = <<>>

\* A build in which a class node without a name lies inside the selected
\* depth and is dropped, while a class with no members is emitted with
\* empty lists.
C12_Witness ==
  /\ Called("buildClassDiagramData")
  /\ UniqueNodeIds(graphNodes)
  /\ selectedNodeIds = <<idB>>
  /\ depth = 1
  /\ graphNodes[1] = Node(idA, <<"Class">>, "", "", "pkg")
  /\ \E j \in 1..Len(graphLinks) :
        isClassRelation(graphLinks[j]) /\ graphLinks[j].source = idA
          /\ graphLinks[j].target = idB
  /\ Len(ret.classes) = 1
  /\ ret.classes[1].id = idB
  /\ ret.classes[1].fields = <<>>
  /\ ret.classes[1].methods = <<>>

(***************************************************************************)
(* Claims about the noise filter on arbitrary link shapes (SpecNoise).     *)
(***************************************************************************)
\* C13: the relationship normalizer never crashes: for every node list and
\* link list, inheritance cycles included, filterNoiseDependencies and
\* buildClassDiagramData return a result without raising.
C13_NormalizerNeverRaises ==
  (Called("filterNoiseDependencies") \/ Called("buildClassDiagramData"))
    => ~ret.thrown

(***************************************************************************)
(* Claims about the fallback grid of calculateElkLayout (SpecLayout).      *)
(***************************************************************************)
\* The smallest c with c * c >= n.
CeilSqrt(n) == CHOOSE c \in 0..n : c * c >= n /\ \A b \in 0..(c - 1) : b * b < n

\* The rendered height of a class with the given numbers of fields and
\* methods.
BoxHeight(cls) ==
  56 + 20
    + (IF Len(cls.fields) = 0 THEN 26 ELSE 22 * Min(Len(cls.fields), 8) + 10)
    + (IF Len(cls.methods) = 0 THEN 26 ELSE 22 * Min(Len(cls.methods), 8) + 10)

\* C14: layout always succeeds: when the layout oracle throws,
\* calculateElkLayout does not propagate the error and returns a map with a
\* position for every input class, on a grid of ceil(sqrt(n)) columns:
\* class i is in column i mod cols and row floor(i / cols).
C14_FallbackGridCoversAll ==
  Called("calculateElkLayout") =>
    /\ ~ret.thrown
    /\ DOMAIN ret.positions = {graphNodes[i].id : i \in 1..Len(graphNodes)}
    /\ \A i \in 1..Len(graphNodes) :
         /\ ret.positions[graphNodes[i].id].x
              = ((i - 1) % CeilSqrt(Len(graphNodes))) * 600
         /\ ret.positions[graphNodes[i].id].y
              = ((i - 1) \div CeilSqrt(Len(graphNodes)))
                  * (BoxHeight(LayoutClasses(graphNodes)[i]) + 200)

\* Five classes, the oracle threw: the fifth class is in column 1 of row 1
\* of a grid of 3 columns.
C14_Witness ==
  /\ Called("calculateElkLayout")
  /\ Len(graphNodes) = 5
  /\ ~ret.thrown
  /\ ret.positions[idE].x = 600
  /\ ret.positions[idE].y = BoxHeight(LayoutClasses(graphNodes)[5]) + 200
  /\ ret.positions[idC].x = 1200
  /\ ret.positions[idC].y = 0

\* Two boxes of width 300 and the classes' heights overlap.
BoxesOverlap(p, hp, q, hq) ==
  /\ p.x < q.x + 300
  /\ q.x < p.x + 300
  /\ p.y < q.y + hq
  /\ q.y < p.y + hp

\* C15: fallback grid non-overlap: for every list of classes the positions
\* of the fallback grid are pairwise distinct and no two class boxes (width
\* 300, height calculateNodeHeight of the class) overlap.
C15_FallbackGridNoOverlap ==
  Called("calculateElkLayout") =>
    \A i, j \in 1..Len(graphNodes) :
      i < j =>
        /\ ret.positions[graphNodes[i].id] # ret.positions[graphNodes[j].id]
        /\ ~BoxesOverlap(ret.positions[graphNodes[i].id],
                         BoxHeight(LayoutClasses(graphNodes)[i]),
                         ret.positions[graphNodes[j].id],
                         BoxHeight(LayoutClasses(graphNodes)[j]))

(***************************************************************************)
(* Claims about the displayed diagram of the component (Spec).             *)
(***************************************************************************)
\* C16: empty selection is a valid empty state: whenever the current
\* selection is empty or resolves to no node id, and no rebuild is in
\* flight, the displayed nodes and edges are empty.
C16_EmptySelectionEmptyDiagram ==
  ( /\ inflight = {}
    /\ \/ Len(selectedClasses) = 0
       \/ Len(findNodeIdsByClassNames(graphNodes, selectedClasses)) = 0 )
    => (nodes = <<>> /\ edges = <<>>)

\* The rebuild whose oracle call never returns is suspended in that call.
HungInFlight == \E r \in inflight : r.id = HungRunId /\ Len(r.data.classes) > 0

\* The tokens of the rebuilds suspended in the oracle call.
InFlightIds == {r.id : r \in inflight}

\* C18: a hung layout oracle call does not block later rebuilds: while the
\* hung rebuild stays suspended a trigger still starts a new rebuild, a
\* rebuild started meanwhile completes, and when it completes its result is
\* displayed.
C18_HungCallDoesNotBlock ==
  /\ [][ (HungInFlight /\ selectedClasses' # selectedClasses)
           => (layoutRunId' = layoutRunId + 1 /\ issued'.id = layoutRunId') ]_vars
  /\ \A k \in (HungRunId + 1)..MaxRuns :
       (HungInFlight /\ k \in InFlightIds) ~> (HungInFlight /\ k \notin InFlightIds)
  /\ [][ \A r \in inflight :
           (HungInFlight /\ r \notin inflight')
             => /\ IdsOf(nodes') = IdsOf(r.data.classes)
                /\ IdsOf(edges') = IdsOf(r.data.relationships) ]_vars

\* The first rebuild is still suspended, the second was started after it,
\* has completed, and its classes, which are not those of the first, are
\* displayed.
C18_Witness ==
  /\ HungInFlight
  /\ Cardinality(inflight) = 1
  /\ layoutRunId = 2
  /\ Len(nodes) > 0
  /\ IdsOf(nodes) = IdsOf(issued.data.classes)
  /\ \A r \in inflight : IdsOf(r.data.classes) # IdsOf(nodes)

(***************************************************************************)
(* Claims about the graph store (SpecStore).                               *)
(***************************************************************************)
\* C17: graph store merge: after any sequence of updateGraphData calls since
\* the last clearGraphData the store holds exactly one node per distinct node
\* id and one link per distinct link id, each equal, field by field, to the
\* most recently delivered entry with that id (whole-entry overwrite), so an
\* id that a call does not mention keeps its entry.
C17_StoreHoldsLatestPerId ==
  /\ \A i, j \in 1..Len(graphData.nodes) :
       graphData.nodes[i].id = graphData.nodes[j].id => i = j
  /\ {graphData.nodes[i].id : i \in 1..Len(graphData.nodes)} = DOMAIN delivered.nodes
  /\ \A i \in 1..Len(graphData.nodes) :
       LET raw == delivered.nodes[graphData.nodes[i].id]
       IN /\ graphData.nodes[i].labels = raw.Labels
          /\ graphData.nodes[i].properties = raw.Properties
  /\ \A i, j \in 1..Len(graphData.links) :
       graphData.links[i].id = graphData.links[j].id => i = j
  /\ {graphData.links[i].id : i \in 1..Len(graphData.links)} = DOMAIN delivered.links
  /\ \A i \in 1..Len(graphData.links) :
       LET raw == delivered.links[graphData.links[i].id]
       IN /\ graphData.links[i].source = raw.Start_Node_ID
          /\ graphData.links[i].target = raw.End_Node_ID
          /\ graphData.links[i].type = raw.Type
          /\ graphData.links[i].properties = raw.Properties

\* Two nodes and two links are stored, and some delivery has replaced an
\* entry by a different entry with the same id; node "1" now has the
\* properties of its second version only.
C17_Witness ==
  /\ delivered.replaced
  /\ Len(graphData.nodes) = 2
  /\ Len(graphData.links) = 2
  /\ \E i \in 1..2 : /\ graphData.nodes[i].id = "1"
                       /\ graphData.nodes[i].properties = [directory |-> "src"]

(***************************************************************************)
(* Frame of filterNoiseDependencies (SpecNoise).                           *)
(***************************************************************************)
NotDependency(link) == toUpperCase(link.type) # "DEPENDENCY"

\* C19: filterNoiseDependencies leaves every non-DEPENDENCY link untouched:
\* the output of a call that returns contains every input link whose
\* upper-cased type is not DEPENDENCY, unchanged and in the same relative
\* order, and contains no link that was not in the input.
C19_NonDependencyLinksPassThrough ==
  (Called("filterNoiseDependencies") /\ ~ret.thrown)
    => /\ SelectSeq(ret.value, NotDependency) = SelectSeq(graphLinks, NotDependency)
       /\ \A i \in 1..Len(ret.value) :
            \E j \in 1..Len(graphLinks) : ret.value[i] = graphLinks[j]

\* A call on four links returned three: a dependency was removed, another
\* dependency and two links of other types (of different types) were kept.
C19_Witness ==
  /\ Called("filterNoiseDependencies")
  /\ ~ret.thrown
  /\ Len(graphLinks) = 4
  /\ Len(ret.value) = 3
  /\ \E i \in 1..3 : ~NotDependency(ret.value[i])
  /\ \E i, j \in 1..3 : /\ i < j
                          /\ NotDependency(ret.value[i])
                          /\ NotDependency(ret.value[j])
                          /\ ret.value[i].type # ret.value[j].type

(***************************************************************************)
(* Label matching of the role predicates (SpecLabels).                     *)
(***************************************************************************)
\* Some label of the node equals, up to letter case, a label of the
\* vocabulary.
MatchesIgnoringCase(node, vocabulary) ==
  \E i \in 1..Len(node.labels) :
    \E v \in vocabulary : toUpperCase(node.labels[i]) = toUpperCase(v)

\* C20: the role predicates isClassNode, isFieldNode, isMethodNode and
\* isParameterNode match labels case-insensitively: a node whose label
\* differs only in letter case from a vocabulary label is classified like
\* one that carries the vocabulary label, so whenever getClassType
\* recognises an interface or an enum, isClassNode holds.
C20_RolePredicatesIgnoreCase ==
  Called("rolePredicates")
    => /\ ret.isClassNode = MatchesIgnoringCase(graphNodes[1], CLASS_LABELS)
       /\ ret.isFieldNode = MatchesIgnoringCase(graphNodes[1], FIELD_LABELS)
       /\ ret.isMethodNode = MatchesIgnoringCase(graphNodes[1], METHOD_LABELS)
       /\ ret.isParameterNode = MatchesIgnoringCase(graphNodes[1], PARAMETER_LABELS)
       /\ (ret.getClassType \in {"interface", "enum"} => ret.isClassNode)

(***************************************************************************)
(* Embedded members (SpecProjection).                                      *)
(***************************************************************************)
\* Some PARENT_OF link goes from the node to a field node or a method node
\* of the graph.
HasMemberChild(n, nodeList, links) ==
  \E i \in 1..Len(links) :
    /\ links[i].type = "PARENT_OF"
    /\ links[i].source = n.id
    /\ NodeMapHas(nodeList, links[i].target)
    /\ \/ isFieldNode(NodeMapGet(nodeList, links[i].target))
       \/ isMethodNode(NodeMapGet(nodeList, links[i].target))

\* The names of the entries of an embedded array that have a name.
EmbeddedNames(raw) ==
  [i \in 1..Len(SelectSeq(raw, LAMBDA e : e.name # "")) |->
     SelectSeq(raw, LAMBDA e : e.name # "")[i].name]

MemberNames(members) == [i \in 1..Len(members) |-> members[i].name]

\* C21: embedded-member fallback: a class node that has no PARENT_OF link to
\* any field or method node gets its UML fields and methods from the
\* embedded fields / methods arrays of the node, also when the class has
\* PARENT_OF links to other kinds of child nodes.
C21_EmbeddedMembersUsed ==
  (Called("buildClassDiagramData") /\ ~ret.thrown /\ UniqueNodeIds(graphNodes))
    => \A c \in 1..Len(ret.classes) :
         LET node == NodeMapGet(graphNodes, ret.classes[c].id)
         IN ~HasMemberChild(node, graphNodes, graphLinks)
              => /\ MemberNames(ret.classes[c].fields) = EmbeddedNames(node.fields)
                 /\ MemberNames(ret.classes[c].methods) = EmbeddedNames(node.methods)

(***************************************************************************)
(* Claims about calculateHierarchicalLayout (SpecHierarchy).               *)
(***************************************************************************)
\* C22: hierarchical layout places parents above children: for every
\* EXTENDS/IMPLEMENTS relationship whose source (child) and target (parent)
\* are both displayed classes, with acyclic inheritance, the level of the
\* child is greater than the level of the parent, and the y coordinate of
\* the parent is strictly smaller than that of the child.
C22_ParentsAboveChildren ==
  (Called("calculateHierarchicalLayout") /\ AcyclicInheritance(graphLinks))
    => \A i \in 1..Len(graphLinks) :
         (/\ IsInheritance(graphLinks[i])
          /\ graphLinks[i].source \in DOMAIN ret.positions
          /\ graphLinks[i].target \in DOMAIN ret.positions)
           => /\ LevelOf(ret.levels, graphLinks[i].source)
                   > LevelOf(ret.levels, graphLinks[i].target)
              /\ ret.positions[graphLinks[i].target].y
                   < ret.positions[graphLinks[i].source].y

\* C23: hierarchical layout assigns non-overlapping coordinates to every
\* class: exactly one position per input class, and no two class boxes
\* (width 300, height calculateNodeHeight of the class) overlap.
C23_HierarchicalNoOverlap ==
  Called("calculateHierarchicalLayout") =>
    /\ DOMAIN ret.positions = {graphNodes[i].id : i \in 1..Len(graphNodes)}
    /\ \A i, j \in 1..Len(graphNodes) :
         i < j =>
           ~BoxesOverlap(ret.positions[graphNodes[i].id],
                         BoxHeight(LayoutClasses(graphNodes)[i]),
                         ret.positions[graphNodes[j].id],
                         BoxHeight(LayoutClasses(graphNodes)[j]))

(***************************************************************************)
(* Claims about resolveOverlaps (SpecResolve).                             *)
(***************************************************************************)
\* No two boxes overlap, margin included.
NoOverlapLeft(positions, sizes, margin) ==
  \A i, j \in 1..Len(positions) :
    i < j =>
      \/ positions[i].x + sizes[i].width + margin < positions[j].x
      \/ positions[j].x + sizes[j].width + margin < positions[i].x
      \/ positions[i].y + sizes[i].height + margin < positions[j].y
      \/ positions[j].y + sizes[j].height + margin < positions[i].y

\* C24: overlap resolution is bounded and stops early: resolveOverlaps makes
\* at most 100 passes and returns; every pass before the last one found an
\* overlapping pair, a call that stops before the cap stops after a pass
\* that found none, and after a last pass that found none no two boxes
\* overlap (margin included) in the positions it leaves.
C24_ResolveBoundedEarlyStop ==
  Called("resolveOverlaps") =>
    /\ Len(ret.history) >= 1
    /\ Len(ret.history) <= 100
    /\ \A k \in 1..(Len(ret.history) - 1) : ret.history[k]
    /\ (Len(ret.history) < 100 => ~ret.history[Len(ret.history)])
    /\ (~ret.history[Len(ret.history)] /\ ret.known
          => NoOverlapLeft(ret.positions, BoxSizes(graphNodes), depth))

\* Three class-sized boxes were pushed apart during two passes or more and
\* the call stopped before the cap, after a pass that found no overlap.
C24_Witness ==
  /\ Called("resolveOverlaps")
  /\ Len(graphNodes) = 3
  /\ \A i \in 1..3 : graphNodes[i].width = 300
  /\ Len(ret.history) >= 3
  /\ Len(ret.history) < 100
  /\ ret.known
  /\ ret.positions # BoxPositions(graphNodes)

(***************************************************************************)
(* Displayed nodes and stored diagram data of the component (Spec).        *)
(***************************************************************************)
\* C25: whenever no rebuild is in flight, the displayed nodes are consistent
\* with the stored diagram data: the set of displayed node ids equals the
\* set of class ids in diagramData, and both are empty when diagramData is
\* null.
C25_DisplayedMatchesDiagramData ==
  inflight = {} =>
    IF diagramData = Null
    THEN nodes = <<>>
    ELSE {nodes[i].id : i \in 1..Len(nodes)}
           = {diagramData.classes[i].id : i \in 1..Len(diagramData.classes)}

(***************************************************************************)
(* Focal classes in the output of buildClassDiagramData (SpecProjection).  *)
(***************************************************************************)
\* C26: focal classes are never lost: for every graph with unique node ids
\* and every depth (0 and negative values included), each focal node id
\* that belongs to a class node with a non-empty class name appears as a
\* UmlClass in the output of a call of buildClassDiagramData that returns,
\* whichever links noise filtering and deduplication removed.
C26_FocalClassesKept ==
  (Called("buildClassDiagramData") /\ ~ret.thrown /\ UniqueNodeIds(graphNodes))
    => \A k \in 1..Len(selectedNodeIds) :
         \A i \in 1..Len(graphNodes) :
           (/\ graphNodes[i].id = selectedNodeIds[k]
            /\ isClassNode(graphNodes[i])
            /\ getClassName(graphNodes[i]) # "")
             => \E c \in 1..Len(ret.classes) : ret.classes[c].id = selectedNodeIds[k]

\* A call with a negative depth and two focal classes, on a graph with a
\* duplicate connection that deduplication reduced: both focal classes are
\* in the output, which has no relationship between other classes.
C26_Witness ==
  /\ Called("buildClassDiagramData")
  /\ ~ret.thrown
  /\ UniqueNodeIds(graphNodes)
  /\ depth < 0
  /\ selectedNodeIds = <<idC, idA>>
  /\ Len(graphLinks) = 3
  /\ \E c \in 1..Len(ret.classes) : ret.classes[c].id = idA
  /\ \E c \in 1..Len(ret.classes) : ret.classes[c].id = idC
  /\ Len(ret.relationships) = 1

(***************************************************************************)
(* Selection marking of the displayed nodes (Spec).                        *)
(***************************************************************************)
\* C27: selection marking agrees with focal resolution: every displayed
\* class whose node id was resolved from a selected {className, directory}
\* entry by findNodeIdsByClassNames is rendered with isSelected = true, for
\* every selection entry, including ones whose directory is empty.
C27_ResolvedClassesMarkedSelected ==
  inflight = {} =>
    \A i \in 1..Len(nodes) :
      nodes[i].id \in Range(findNodeIdsByClassNames(graphNodes, selectedClasses))
        => nodes[i].isSelected

(***************************************************************************)
(* Connections kept by dedupeRelationships (SpecDedupe).                   *)
(***************************************************************************)
\* C28: deduplication loses no connection: for every input link of
\* dedupeRelationships there is an output link with the same source and
\* target which, if the input type is EXTENDS/IMPLEMENTS/DEPENDENCY, has the
\* same upper-cased type, and otherwise has an ownership type of equal or
\* higher strength; and every output link is one of the input links.
C28_NoConnectionLost ==
  Called("dedupeRelationships") =>
    /\ \A i \in 1..Len(graphLinks) :
         \E k \in 1..Len(ret) :
           /\ SamePair(ret[k], graphLinks[i].source, graphLinks[i].target)
           /\ IF IsInheritance(graphLinks[i]) \/ IsDependency(graphLinks[i])
              THEN toUpperCase(ret[k].type) = toUpperCase(graphLinks[i].type)
              ELSE /\ IsOwnership(ret[k])
                   /\ RELATION_STRENGTH(toUpperCase(ret[k].type))
                        >= RELATION_STRENGTH(toUpperCase(graphLinks[i].type))
    /\ \A k \in 1..Len(ret) : \E i \in 1..Len(graphLinks) : ret[k] = graphLinks[i]

(***************************************************************************)
(* File-viewer tabs (SpecTabs).                                            *)
(***************************************************************************)
OpenTabIds == {openTabs[i].id : i \in 1..Len(openTabs)}

\* C30: file-viewer tabs invariant: after any sequence of handleTreeSelect,
\* activateTab (on an open tab) and closeTab calls, open tab ids are pairwise
\* distinct, and activeTabId is null exactly when no tab is open and
\* otherwise is the id of an open tab; closing a non-active tab leaves
\* activeTabId unchanged.
C30_TabsInvariant ==
  /\ [](/\ \A i, j \in 1..Len(openTabs) : openTabs[i].id = openTabs[j].id => i = j
        /\ (activeTabId = <<>>) <=> (Len(openTabs) = 0)
        /\ (Len(openTabs) > 0 => activeTabId \in OpenTabIds))
  /\ [][ (Len(openTabs') = Len(openTabs) - 1 /\ activeTabId \in OpenTabIds')
          => activeTabId' = activeTabId ]_vars

\* The file a.sql was selected last in the tree and its tab has been closed;
\* two tabs remain open and the second one is active.
C30_Witness ==
  /\ selectedRelPath = <<"a.sql">>
  /\ TabIdOf(<<"a.sql">>) \notin OpenTabIds
  /\ Len(openTabs) = 2
  /\ activeTabId = openTabs[2].id

(***************************************************************************)
(* The processing flag of the project store (SpecProcessing).              *)
(***************************************************************************)
\* C29: isProcessing is true whenever any of uploadFiles, parseFiles,
\* runUnderstanding or runConvert is in flight, for every interleaving of
\* these operations that the views allow to start, and false once all
\* started operations have finished.
C29_ProcessingWhileInFlight ==
  isProcessing <=> (\E op \in StoreOps : InFlight(op))

====
